---------------------------- MODULE Spec2Model ----------------------------
(***************************************************************************)
(* A model of django_dynamic_filters: the field registry that ModelFilter  *)
(* builds from a model's fields, the predicates it builds from request     *)
(* parameters and from the advanced-filter tree, the sort keys, and        *)
(* apply() / qs as the operations of one ModelFilter instance; and the     *)
(* request store of RequestMiddleware with the queryset's apply_filtering. *)
(*                                                                         *)
(* Python values are tagged records:                                       *)
(*   [t |-> "none"]  [t |-> "str", s |-> <<atoms>>]  [t |-> "bool", b]     *)
(*   [t |-> "int", n]  [t |-> "float", n]  [t |-> "list", items]           *)
(*   [t |-> "dict", m]  [t |-> "datetime", ...]  [t |-> "Q", ...]          *)
(* A Python str is a sequence of atoms; an atom is one character or a      *)
(* word that no operation of the program looks inside (a field name, a     *)
(* lookup name).  Decimal numbers are counted in hundredths.               *)
(***************************************************************************)
EXTENDS Integers, Sequences, FiniteSets, TLC

VARIABLES
    model,              \* self.model: the name of the model class
    config,             \* self.config: the allow-lists
    field_registry,     \* self.field_registry, in insertion order
    request_data,       \* self.request_data: a QueryDict, as its (key, value) pairs
    base_queryset,      \* self.base_queryset: the rows of the base queryset
    filtered_queryset,  \* self.filtered_queryset: None or the rows of the result
    collaborator,       \* the filter()/order_by() calls issued to the queryset
    outcome,            \* how the last call of apply()/qs ended
    calls,              \* number of calls of apply()/qs made so far
    thread_locals,      \* middleware._thread_locals.request, per thread
    handling,           \* the request whose __call__ is running, per thread
    given_queryset,     \* the queryset argument of __init__: None when not given
    registered          \* registration calls __init__ has made so far

vars == <<model, config, field_registry, request_data, base_queryset,
          filtered_queryset, collaborator, outcome, calls, thread_locals, handling,
          given_queryset, registered>>

-----------------------------------------------------------------------------
(* Bounds of the model *)

MaxCalls == 2          \* calls of apply()/qs on one ModelFilter
MaxOrderTokens == 3    \* tokens in an `ordering` value
MaxConditions == 2     \* conditions in one group of an advanced filter
MaxTermLen == 3        \* characters in a `search` term
MaxParams == 3         \* parameters in a request that repeats a parameter
MaxAllowParams == 2    \* parameters in a request to a filter with allow-lists
MaxBoolLen == 3        \* characters in the text given for a boolean field
MaxFlatParams == 3     \* parameters in a request of flat parameters

-----------------------------------------------------------------------------
(* Python values *)

None == [t |-> "none"]
Str(s) == [t |-> "str", s |-> s]
Bool(b) == [t |-> "bool", b |-> b]
PyInt(n) == [t |-> "int", n |-> n]
Infinity == [t |-> "inf"]      \* float('inf')
Float(n) == [t |-> "float", n |-> n]
List(items) == [t |-> "list", items |-> items]
Dict(m) == [t |-> "dict", m |-> m]
Raise(exc) == [t |-> "raise", exc |-> exc]

IsNone(v) == v.t = "none"
IsRaise(v) == v.t = "raise"

\* a local name: `name = value`, then the statements that read it; the value
\* is computed once, before they run
With(value, Rest(_)) == CHOOSE result \in {Rest(name) : name \in {value}} : TRUE

\* bool(v): Python truth value
Truthy(v) ==
    CASE v.t = "none" -> FALSE
      [] v.t = "str" -> Len(v.s) > 0
      [] v.t = "bool" -> v.b
      [] v.t = "int" -> v.n # 0
      [] v.t = "float" -> v.n # 0
      [] v.t = "list" -> Len(v.items) > 0
      [] v.t = "dict" -> DOMAIN v.m # {}
      [] v.t = "Q" -> v.op # "empty"
      [] OTHER -> TRUE

-----------------------------------------------------------------------------
(* str operations *)

Range(f) == {f[i] : i \in DOMAIN f}

UpperChars == {"A", "B", "C", "D", "E", "F", "G", "H", "I", "J", "K", "L", "M",
               "N", "O", "P", "Q", "R", "S", "T", "U", "V", "W", "X", "Y", "Z"}

\* str.lower() on one atom
LowerChar(c) ==
    CASE c = "A" -> "a" [] c = "B" -> "b" [] c = "C" -> "c" [] c = "D" -> "d"
      [] c = "E" -> "e" [] c = "F" -> "f" [] c = "G" -> "g" [] c = "H" -> "h"
      [] c = "I" -> "i" [] c = "J" -> "j" [] c = "K" -> "k" [] c = "L" -> "l"
      [] c = "M" -> "m" [] c = "N" -> "n" [] c = "O" -> "o" [] c = "P" -> "p"
      [] c = "Q" -> "q" [] c = "R" -> "r" [] c = "S" -> "s" [] c = "T" -> "t"
      [] c = "U" -> "u" [] c = "V" -> "v" [] c = "W" -> "w" [] c = "X" -> "x"
      [] c = "Y" -> "y" [] c = "Z" -> "z"
      [] OTHER -> c

Lower(s) == [i \in 1..Len(s) |-> LowerChar(s[i])]

\* str.upper() on one atom
UpperChar(c) ==
    CASE c = "a" -> "A" [] c = "b" -> "B" [] c = "c" -> "C" [] c = "d" -> "D"
      [] c = "e" -> "E" [] c = "f" -> "F" [] c = "g" -> "G" [] c = "h" -> "H"
      [] c = "i" -> "I" [] c = "j" -> "J" [] c = "k" -> "K" [] c = "l" -> "L"
      [] c = "m" -> "M" [] c = "n" -> "N" [] c = "o" -> "O" [] c = "p" -> "P"
      [] c = "q" -> "Q" [] c = "r" -> "R" [] c = "s" -> "S" [] c = "t" -> "T"
      [] c = "u" -> "U" [] c = "v" -> "V" [] c = "w" -> "W" [] c = "x" -> "X"
      [] c = "y" -> "Y" [] c = "z" -> "Z"
      [] OTHER -> c

Upper(s) == [i \in 1..Len(s) |-> UpperChar(s[i])]

StartsWith(s, p) == Len(p) <= Len(s) /\ SubSeq(s, 1, Len(p)) = p

EndsWith(s, p) == Len(p) <= Len(s) /\ SubSeq(s, Len(s) - Len(p) + 1, Len(s)) = p

\* sub in s
Contains(s, sub) ==
    \E i \in 0..(Len(s) - Len(sub)) : SubSeq(s, i + 1, i + Len(sub)) = sub

RECURSIVE LStrip(_)
LStrip(s) == IF s # <<>> /\ Head(s) = " " THEN LStrip(Tail(s)) ELSE s

RECURSIVE RStrip(_)
RStrip(s) ==
    IF s # <<>> /\ s[Len(s)] = " " THEN RStrip(SubSeq(s, 1, Len(s) - 1)) ELSE s

\* str.strip()
Strip(s) == RStrip(LStrip(s))

\* str.split(sep) for a one-atom separator: the parts, empty ones included
RECURSIVE SplitAcc(_, _, _)
SplitAcc(s, sep, cur) ==
    IF s = <<>> THEN <<cur>>
    ELSE IF Head(s) = sep THEN <<cur>> \o SplitAcc(Tail(s), sep, <<>>)
    ELSE SplitAcc(Tail(s), sep, Append(cur, Head(s)))

Split(s, sep) == SplitAcc(s, sep, <<>>)

-----------------------------------------------------------------------------
(* utils/constants.py *)

SEARCH_PARAM == <<"search">>
ORDERING_PARAM == <<"ordering">>
DEFAULT_ORDERING == <<"-", "id">>
ADVANCED_FILTER_PARAM == <<"filter">>
DATE_RANGE_SUFFIXES == << <<"_min">>, <<"_max">> >>
LOOKUP_SEP == <<"__">>


-----------------------------------------------------------------------------
(* FieldTypeRegistry *)

\* FieldTypeRegistry.DEFAULT_LOOKUPS, with get_default_lookup's fallback
get_default_lookup(field_type) ==
    CASE field_type = "text" -> <<"icontains">>
      [] field_type = "integer" -> <<"exact">>
      [] field_type = "decimal" -> <<"exact">>
      [] field_type = "boolean" -> <<"exact">>
      [] field_type = "date" -> <<"exact">>
      [] field_type = "datetime" -> <<"exact">>
      [] field_type = "enum" -> <<"exact">>
      [] field_type = "relation" -> <<"exact">>
      [] field_type = "array" -> <<"contains">>
      [] field_type = "json" -> <<"has_key">>
      [] OTHER -> <<"exact">>

\* FieldTypeRegistry.DJANGO_TYPE_MAPPING, with the 'text' fallback of get_field_type
DJANGO_TYPE_MAPPING(django_type) ==
    CASE django_type \in {"CharField", "TextField", "SlugField", "EmailField",
                          "URLField", "FileField", "FilePathField"} -> "text"
      [] django_type \in {"IntegerField", "PositiveIntegerField", "SmallIntegerField",
                          "BigIntegerField", "AutoField", "BigAutoField"} -> "integer"
      [] django_type \in {"FloatField", "DecimalField"} -> "decimal"
      [] django_type \in {"BooleanField", "NullBooleanField"} -> "boolean"
      [] django_type = "DateField" -> "date"
      [] django_type = "DateTimeField" -> "datetime"
      [] django_type = "TimeField" -> "text"
      [] django_type \in {"ForeignKey", "OneToOneField", "ManyToManyField"} -> "relation"
      [] django_type = "JSONField" -> "json"
      [] django_type = "ArrayField" -> "array"
      [] OTHER -> "text"

\* FieldTypeRegistry.DEFAULT_LOOKUPS_BY_TYPE, with get_lookups_for_type's fallback
get_lookups_for_type(field_type) ==
    CASE field_type = "text" ->
            << <<"exact">>, <<"iexact">>, <<"contains">>, <<"icontains">>,
               <<"startswith">>, <<"istartswith">> >>
      [] field_type = "integer" ->
            << <<"exact">>, <<"gt">>, <<"gte">>, <<"lt">>, <<"lte">>, <<"in">>, <<"range">> >>
      [] field_type = "decimal" ->
            << <<"exact">>, <<"gt">>, <<"gte">>, <<"lt">>, <<"lte">>, <<"range">> >>
      [] field_type = "boolean" -> << <<"exact">> >>
      [] field_type = "date" ->
            << <<"exact">>, <<"gt">>, <<"gte">>, <<"lt">>, <<"lte">>, <<"range">> >>
      [] field_type = "datetime" ->
            << <<"exact">>, <<"gt">>, <<"gte">>, <<"lt">>, <<"lte">>, <<"range">>, <<"date">> >>
      [] field_type = "enum" -> << <<"exact">>, <<"in">> >>
      [] field_type = "relation" -> << <<"exact">>, <<"in">> >>
      [] field_type = "json" -> << <<"has_key">>, <<"contains">>, <<"contained_by">> >>
      [] field_type = "array" ->
            << <<"contains">>, <<"contained_by">>, <<"overlap">>, <<"len">> >>
      [] OTHER -> << <<"exact">> >>

\* A field descriptor (a Django field object) is a record:
\*   name, internal_type (get_internal_type()), mro (the class names of its
\*   class hierarchy), choices_cls (None or the class of _choices_cls),
\*   choices (the conventional choices, (value, label) pairs), auto_created,
\*   concrete, is_relation, related_model (a model name or ""),
\*   has_internal_type (hasattr get_internal_type), filter_config (None or a dict)

\* FieldTypeRegistry._is_choice_field
is_choice_field(field) ==
    \/ ~IsNone(field.choices_cls)
    \/ \E c \in field.mro : c \in {"BaseChoiceField", "ChoiceField", "TypedChoiceField"}
    \/ Len(field.choices) > 0

\* FieldTypeRegistry.get_field_type
get_field_type(field) ==
    IF is_choice_field(field) THEN "enum"
    ELSE IF "DateField" \in field.mro /\ ~("DateTimeField" \in field.mro) THEN "date"
    ELSE IF "DateTimeField" \in field.mro THEN "datetime"
    ELSE IF "JSONField" \in field.mro THEN "json"
    ELSE IF field.has_internal_type THEN DJANGO_TYPE_MAPPING(field.internal_type)
    ELSE "text"

\* ModelFilter._get_enum_class: the class named by _choices_cls, else the
\* class of the first conventional choice's value (int, str: a class with
\* neither as_tuples nor choices), else None
BuiltinClass == [t |-> "class", as_tuples |-> None, choices |-> None]

get_enum_class(field) ==
    IF ~IsNone(field.choices_cls) THEN field.choices_cls
    ELSE IF Len(field.choices) > 0 THEN BuiltinClass
    ELSE None


-----------------------------------------------------------------------------
(* The field registry: a dict in insertion order, as the sequence of its    *)
(* entries, each carrying its key as "name"                                 *)

RegistryNames(registry) == {registry[i].name : i \in DOMAIN registry}

\* field_name in self.field_registry
InRegistry(registry, field_name) == field_name \in RegistryNames(registry)

\* self.field_registry[field_name]
Entry(registry, field_name) ==
    registry[CHOOSE i \in DOMAIN registry : registry[i].name = field_name]

\* an allow-list that excludes nothing
ExcludedByNone(allow_list, field_name) == FALSE

\* set(self.config.get(key, [])) is non-empty and does not hold field_name
ExcludedBy(allow_list, field_name) ==
    Len(allow_list) > 0 /\ field_name \notin Range(allow_list)

\* dict.get(key) / dict.get(key, default) on a filter_config
ConfigGet(field_config, key, default) ==
    IF key \in DOMAIN field_config THEN field_config[key] ELSE default

\* the bare name, whether it is taken or not
BareName(registry, field, relation_prefix) == field.name

\* field_name of _register_field: the field's name, or for a field of a
\* related model whose name is taken, the name behind the relation's
RegisteredName(registry, field, relation_prefix) ==
    IF Len(relation_prefix) > 0 /\ InRegistry(registry, field.name)
    THEN relation_prefix \o <<"_">> \o field.name
    ELSE field.name

\* ModelFilter._register_field
register_field(registry, cfg, field, relation_prefix) ==
    IF field.auto_created /\ ~field.concrete THEN registry
    ELSE
    LET field_path == IF Len(relation_prefix) > 0
                      THEN relation_prefix \o LOOKUP_SEP \o field.name
                      ELSE field.name
        field_name == RegisteredName(registry, field, relation_prefix)
    IN  IF InRegistry(registry, field_name) THEN registry
        ELSE
        LET field_type == get_field_type(field)
            field_config == IF IsNone(field.filter_config) THEN << >>
                            ELSE field.filter_config.m
            searchable0 == ConfigGet(field_config, "searchable", FALSE)
            filterable == ~ExcludedBy(cfg.filter_fields, field_name)
            searchable == IF ExcludedBy(cfg.search_fields, field_name)
                          THEN FALSE ELSE searchable0
            lookups == IF "lookups" \in DOMAIN field_config
                       THEN field_config["lookups"]
                       ELSE get_lookups_for_type(field_type)
            default_lookup == IF "default" \in DOMAIN field_config
                              THEN field_config["default"]
                              ELSE get_default_lookup(field_type)
            range_filter == IF "range_filter" \in DOMAIN field_config
                            THEN field_config["range_filter"]
                            ELSE field_type \in {"date", "datetime", "integer", "decimal"}
        IN  Append(registry,
                   [name |-> field_name,
                    field_path |-> field_path,
                    type |-> field_type,
                    searchable |-> searchable,
                    filterable |-> filterable,
                    lookups |-> lookups,
                    default_lookup |-> default_lookup,
                    range_filter |-> range_filter,
                    enum_class |-> IF field_type = "enum" THEN get_enum_class(field)
                                   ELSE None,
                    is_annotated |-> FALSE])

\* ModelFilter._register_annotated_field, for the type 'text' that
\* _determine_annotation_type gives every expression
register_annotated_field(registry, cfg, field_name) ==
    IF InRegistry(registry, field_name) THEN registry
    ELSE Append(registry,
                [name |-> field_name,
                 field_path |-> field_name,
                 type |-> "text",
                 searchable |-> ~ExcludedBy(cfg.search_fields, field_name),
                 filterable |-> ~ExcludedBy(cfg.filter_fields, field_name),
                 lookups |-> get_lookups_for_type("text"),
                 default_lookup |-> get_default_lookup("text"),
                 range_filter |-> FALSE,
                 enum_class |-> None,
                 is_annotated |-> TRUE])


-----------------------------------------------------------------------------
(* The models: tests/models.py, with the fields the abstract bases add, in  *)
(* the order of Model._meta.get_fields(); and Ticket, a model with its own  *)
(* primary key, a date and two choice fields                                *)

Field(name, internal_type, mro, filter_config) ==
    [name |-> name, internal_type |-> internal_type, mro |-> mro,
     choices_cls |-> None, choices |-> <<>>,
     auto_created |-> FALSE, concrete |-> TRUE,
     is_relation |-> FALSE, related_model |-> "",
     has_internal_type |-> TRUE, filter_config |-> filter_config]

AutoIdField ==
    [Field(<<"id">>, "AutoField", {"AutoField", "IntegerField"}, None)
        EXCEPT !.auto_created = TRUE]

\* TimestampedModel and SoftDeleteModel: plain django fields, no filter_config
BaseFields ==
    << AutoIdField,
       Field(<<"created_date">>, "DateTimeField", {"DateTimeField", "DateField"}, None),
       Field(<<"last_modified_date">>, "DateTimeField", {"DateTimeField", "DateField"}, None),
       Field(<<"is_deleted">>, "BooleanField", {"BooleanField"}, None),
       Field(<<"deleted_at">>, "DateTimeField", {"DateTimeField", "DateField"}, None) >>

\* the reverse side of Product.category, as Category._meta.get_fields() lists it
ProductReverseRel ==
    [Field(<<"product">>, "ForeignKey", {"ManyToOneRel", "ForeignObjectRel"}, None)
        EXCEPT !.auto_created = TRUE, !.concrete = FALSE,
               !.is_relation = TRUE, !.related_model = "Product"]

CategoryFields ==
    <<ProductReverseRel>> \o BaseFields \o
    << Field(<<"name">>, "CharField", {"CharField", "FilterableFieldMixin"},
             Dict([searchable |-> TRUE,
                   lookups |-> << <<"exact">>, <<"icontains">> >>])) >>

ProductFields ==
    BaseFields \o
    << Field(<<"name">>, "CharField", {"CharField", "FilterableFieldMixin"},
             Dict([searchable |-> TRUE])),
       Field(<<"description">>, "CharField", {"CharField", "FilterableFieldMixin"},
             Dict([searchable |-> TRUE])),
       Field(<<"price">>, "DecimalField", {"DecimalField", "FilterableFieldMixin"},
             Dict([lookups |-> << <<"exact">>, <<"gt">>, <<"lt">>, <<"range">> >>])),
       [Field(<<"category">>, "ForeignKey", {"ForeignKey", "ForeignObject"}, None)
            EXCEPT !.is_relation = TRUE, !.related_model = "Category"],
       Field(<<"created_at">>, "DateTimeField",
             {"DateTimeField", "DateField", "FilterableFieldMixin"},
             Dict([range_filter |-> TRUE])),
       Field(<<"is_active">>, "BooleanField", {"BooleanField", "FilterableFieldMixin"},
             Dict([lookups |-> << <<"exact">> >>])) >>

\* a _choices_cls: a class whose as_tuples() gives (value, label) pairs
StatusChoices ==
    [t |-> "class",
     as_tuples |-> List(<< <<PyInt(1), <<"O", "p", "e", "n">> >>,
                          <<PyInt(2), <<"D", "o", "n", "e">> >> >>),
     choices |-> None]

TicketFields ==
    << Field(<<"code">>, "CharField", {"CharField", "FilterableFieldMixin"}, Dict(<<>>)),
       [Field(<<"status">>, "IntegerField", {"IntegerField", "FilterableFieldMixin"},
              Dict([searchable |-> TRUE]))
            EXCEPT !.choices_cls = StatusChoices],
       [Field(<<"priority">>, "IntegerField", {"IntegerField", "FilterableFieldMixin"},
              Dict(<<>>))
            EXCEPT !.choices = << <<PyInt(1), <<"L", "o", "w">> >>,
                                  <<PyInt(2), <<"T", "o", "p">> >> >>],
       Field(<<"due">>, "DateField", {"DateField", "FilterableFieldMixin"}, Dict(<<>>)),
       Field(<<"stock">>, "IntegerField", {"IntegerField", "FilterableFieldMixin"},
             Dict(<<>>)) >>

\* Review, a model with a relation to Product and own fields under names the
\* fields of Product would take: name, which filter_config lets match by
\* exact and iexact only, and product_name
ReviewFields ==
    << AutoIdField,
       [Field(<<"product">>, "ForeignKey", {"ForeignKey", "ForeignObject"}, None)
            EXCEPT !.is_relation = TRUE, !.related_model = "Product"],
       Field(<<"name">>, "CharField", {"CharField", "FilterableFieldMixin"},
             Dict([lookups |-> << <<"exact">>, <<"iexact">> >>])),
       Field(<<"product", "_", "name">>, "CharField", {"CharField"}, None) >>

ModelNames == {"Product", "Category", "Ticket"}

\* model._meta.get_fields()
get_fields(m) ==
    CASE m = "Product" -> ProductFields
      [] m = "Category" -> CategoryFields
      [] m = "Ticket" -> TicketFields
      [] m = "Review" -> ReviewFields

\* ModelFilter._analyze_model_fields: the first loop over the model's fields
RECURSIVE RegisterOwn(_, _, _)
RegisterOwn(registry, cfg, fields) ==
    IF fields = <<>> THEN registry
    ELSE With(register_field(registry, cfg, Head(fields), <<>>),
              LAMBDA next : RegisterOwn(next, cfg, Tail(fields)))

\* the inner loop: the related model's fields, under the relation's name
RECURSIVE RegisterRelated(_, _, _, _)
RegisterRelated(registry, cfg, rel_fields, relation_name) ==
    IF rel_fields = <<>> THEN registry
    ELSE With(IF Head(rel_fields).has_internal_type
              THEN register_field(registry, cfg, Head(rel_fields), relation_name)
              ELSE registry,
              LAMBDA next : RegisterRelated(next, cfg, Tail(rel_fields), relation_name))

\* one pass of the second loop: the field again, then its related model's fields
RegisterRelation(registry, cfg, field) ==
    With(register_field(registry, cfg, field, <<>>),
         LAMBDA own : IF field.is_relation
                      THEN RegisterRelated(own, cfg, get_fields(field.related_model),
                                           field.name)
                      ELSE own)

\* the second loop of _analyze_model_fields
RECURSIVE RegisterRelations(_, _, _)
RegisterRelations(registry, cfg, fields) ==
    IF fields = <<>> THEN registry
    ELSE With(RegisterRelation(registry, cfg, Head(fields)),
              LAMBDA next : RegisterRelations(next, cfg, Tail(fields)))

analyze_model_fields(m, cfg) ==
    With(RegisterOwn(<<>>, cfg, get_fields(m)),
         LAMBDA own : RegisterRelations(own, cfg, get_fields(m)))

\* ModelFilter._register_annotated_fields
RECURSIVE register_annotated_fields(_, _, _)
register_annotated_fields(registry, cfg, annotations) ==
    IF annotations = <<>> THEN registry
    ELSE With(register_annotated_field(registry, cfg, Head(annotations)),
              LAMBDA next : register_annotated_fields(next, cfg, Tail(annotations)))

\* the registry ModelFilter.__init__ builds
BuildRegistry(m, cfg, annotations) ==
    With(analyze_model_fields(m, cfg),
         LAMBDA analysed : register_annotated_fields(analysed, cfg, annotations))

\* The registration calls __init__ makes, in order.  A call of
\* _register_field carries the field and the relation_prefix, a call of
\* _register_annotated_field the name of the annotation.
FieldCall(field, relation_prefix) ==
    [kind |-> "field", field |-> field, relation_prefix |-> relation_prefix,
     name |-> field.name]

AnnotationCall(field_name) ==
    [kind |-> "annotation", field |-> None, relation_prefix |-> <<>>,
     name |-> field_name]

HasInternalType(rel_field) == rel_field.has_internal_type

\* the first loop of _analyze_model_fields
OwnCalls(fields) == [i \in DOMAIN fields |-> FieldCall(fields[i], <<>>)]

\* one pass of the second loop: the field again, then the fields of its
\* related model that have get_internal_type
RelationCalls(field) ==
    <<FieldCall(field, <<>>)>>
    \o (IF field.is_relation
        THEN With(SelectSeq(get_fields(field.related_model), HasInternalType),
                  LAMBDA rel_fields :
                      [i \in DOMAIN rel_fields |-> FieldCall(rel_fields[i], field.name)])
        ELSE <<>>)

RECURSIVE RelationsCalls(_)
RelationsCalls(fields) ==
    IF fields = <<>> THEN <<>>
    ELSE RelationCalls(Head(fields)) \o RelationsCalls(Tail(fields))

RegistrationCalls(m, annotations) ==
    OwnCalls(get_fields(m)) \o RelationsCalls(get_fields(m))
    \o [i \in DOMAIN annotations |-> AnnotationCall(annotations[i])]

\* the registry after one more registration call
Registering(registry, cfg, call) ==
    IF call.kind = "field"
    THEN register_field(registry, cfg, call.field, call.relation_prefix)
    ELSE register_annotated_field(registry, cfg, call.name)


-----------------------------------------------------------------------------
(* Numbers in text *)

Digits == {"0", "1", "2", "3", "4", "5", "6", "7", "8", "9"}

DigitVal(c) ==
    CASE c = "0" -> 0 [] c = "1" -> 1 [] c = "2" -> 2 [] c = "3" -> 3 [] c = "4" -> 4
      [] c = "5" -> 5 [] c = "6" -> 6 [] c = "7" -> 7 [] c = "8" -> 8 [] c = "9" -> 9

AllDigits(s) == Len(s) > 0 /\ \A i \in 1..Len(s) : s[i] \in Digits

RECURSIVE DigitsVal(_)
DigitsVal(s) ==
    IF s = <<>> THEN 0 ELSE 10 * DigitsVal(SubSeq(s, 1, Len(s) - 1)) + DigitVal(s[Len(s)])

\* an optional sign in front of the rest
Unsigned(s) == IF s # <<>> /\ Head(s) \in {"-", "+"} THEN Tail(s) ELSE s
Sign(s) == IF s # <<>> /\ Head(s) = "-" THEN -1 ELSE 1

\* int(str): surrounding blanks, a sign, decimal digits
IntParses(s) == AllDigits(Unsigned(Strip(s)))
IntOf(s) == Sign(Strip(s)) * DigitsVal(Unsigned(Strip(s)))

\* float(str), counted in hundredths: digits, then at most two decimals
\* (the texts of this model carry no exponent and no more decimals)
FloatParses(s) ==
    With(Split(Unsigned(Strip(s)), "."), LAMBDA parts :
        \/ Len(parts) = 1 /\ AllDigits(parts[1])
        \/ /\ Len(parts) = 2
           /\ Len(parts[1]) + Len(parts[2]) > 0
           /\ parts[1] = <<>> \/ AllDigits(parts[1])
           /\ parts[2] = <<>> \/ AllDigits(parts[2])
           /\ Len(parts[2]) <= 2)

\* the hundredths the decimals of a number text stand for
Hundredths(frac) ==
    IF Len(frac) = 1 THEN 10 * DigitsVal(frac) ELSE DigitsVal(frac)

FloatOf(s) ==
    With(Split(Unsigned(Strip(s)), "."), LAMBDA parts :
        Sign(Strip(s)) * (100 * DigitsVal(parts[1])
                          + Hundredths(IF Len(parts) = 2 THEN parts[2] ELSE <<>>)))

-----------------------------------------------------------------------------
(* Q objects: Q() is [op "empty"], Q(key=value) a leaf, & and | as in       *)
(* django.db.models.Q._combine, where an empty operand gives the other one  *)

QEmpty == [t |-> "Q", op |-> "empty"]
QLeaf(key, value) == [t |-> "Q", op |-> "leaf", key |-> key, value |-> value]

QAnd(a, b) ==
    IF b.op = "empty" THEN a
    ELSE IF a.op = "empty" THEN b
    ELSE [t |-> "Q", op |-> "AND", l |-> a, r |-> b]

QOr(a, b) ==
    IF b.op = "empty" THEN a
    ELSE IF a.op = "empty" THEN b
    ELSE [t |-> "Q", op |-> "OR", l |-> a, r |-> b]

-----------------------------------------------------------------------------
(* request_data: a QueryDict, the (key, value) pairs of the query string    *)
(* in order.  A value is a str, or [t "json", doc]: the str that is the     *)
(* JSON text of doc                                                         *)

Param(k, v) == [k |-> k, v |-> v]

\* QueryDict.getlist(key)
RECURSIVE getlist(_, _)
getlist(data, key) ==
    IF data = <<>> THEN <<>>
    ELSE (IF Head(data).k = key THEN <<Head(data).v>> ELSE <<>>) \o getlist(Tail(data), key)

\* key in request_data
HasParam(data, key) == \E i \in DOMAIN data : data[i].k = key

\* request_data[key]: the last value given for key
GetItem(data, key) == With(getlist(data, key), LAMBDA values : values[Len(values)])

\* iteration over request_data: its keys, each once, in order of first occurrence
RECURSIVE Keys(_)
Keys(data) ==
    IF data = <<>> THEN <<>>
    ELSE With(Keys(SubSeq(data, 1, Len(data) - 1)), LAMBDA rest :
             IF data[Len(data)].k \in Range(rest) THEN rest
             ELSE Append(rest, data[Len(data)].k))

\* QueryDict.get(key): the last value alone
get_field_values_last(data, field_name) ==
    With(getlist(data, field_name), LAMBDA values :
        IF Len(values) > 0 THEN values[Len(values)] ELSE None)

\* ModelFilter._get_field_values, for a QueryDict
get_field_values(data, field_name) ==
    With(getlist(data, field_name), LAMBDA values :
        IF Len(values) > 1 THEN List(values)
        ELSE IF Len(values) = 1 THEN values[1]
        ELSE None)


-----------------------------------------------------------------------------
(* Value coercion *)

BOOLEAN_TRUE_STRINGS ==
    { <<"t", "r", "u", "e">>, <<"t">>, <<"y", "e", "s">>, <<"y">>, <<"1">> }

\* bool(value): any text that is not empty counts as true
convert_to_boolean_by_truth(value) ==
    IF value.t = "bool" THEN value ELSE Bool(Truthy(value))

\* ModelFilter._convert_to_boolean
convert_to_boolean(value) ==
    IF value.t = "bool" THEN value
    ELSE IF value.t = "str" THEN Bool(Lower(value.s) \in BOOLEAN_TRUE_STRINGS)
    ELSE Bool(Truthy(value))

\* the quotient of int(float): towards zero
TruncDiv(n, d) == IF n >= 0 THEN n \div d ELSE -((-n) \div d)

\* ModelFilter._convert_to_integer: int(value), 0 on ValueError and TypeError;
\* int() of an infinite float is an OverflowError, which is neither
convert_to_integer(value) ==
    CASE value.t = "int" -> value
      [] value.t = "bool" -> PyInt(IF value.b THEN 1 ELSE 0)
      [] value.t = "float" -> PyInt(TruncDiv(value.n, 100))
      [] value.t = "inf" -> Raise("OverflowError")
      [] value.t = "str" -> PyInt(IF IntParses(value.s) THEN IntOf(value.s) ELSE 0)
      [] OTHER -> PyInt(0)

\* ModelFilter._convert_to_decimal: float(value), 0.0 on ValueError and TypeError
convert_to_decimal(value) ==
    CASE value.t \in {"float", "inf"} -> value
      [] value.t = "int" -> Float(100 * value.n)
      [] value.t = "bool" -> Float(IF value.b THEN 100 ELSE 0)
      [] value.t = "str" -> Float(IF FloatParses(value.s) THEN FloatOf(value.s) ELSE 0)
      [] OTHER -> Float(0)

Converter(field_type, value) ==
    CASE field_type = "boolean" -> convert_to_boolean(value)
      [] field_type = "integer" -> convert_to_integer(value)
      [] field_type = "decimal" -> convert_to_decimal(value)

\* ModelFilter._convert_value_by_type
convert_value_by_type(value, field_info) ==
    IF field_info.type \notin {"boolean", "integer", "decimal"} THEN value
    ELSE IF value.t = "list"
    THEN With([i \in 1..Len(value.items) |-> Converter(field_info.type, value.items[i])],
              LAMBDA converted :
                  IF \E i \in DOMAIN converted : IsRaise(converted[i])
                  THEN converted[CHOOSE i \in DOMAIN converted :
                                     /\ IsRaise(converted[i])
                                     /\ \A j \in 1..(i - 1) : ~IsRaise(converted[j])]
                  ELSE List(converted))
    ELSE Converter(field_info.type, value)

-----------------------------------------------------------------------------
(* Single-field predicate *)

\* the lookup _build_field_filter settles on (lines 409-415)
ResolveLookup(field_info, lookup) ==
    With(IF Truthy(lookup) THEN lookup ELSE Str(field_info.default_lookup),
         LAMBDA given : IF given.t = "str" /\ given.s \in Range(field_info.lookups)
                        THEN given.s
                        ELSE field_info.default_lookup)

\* the value an 'in' lookup is given (lines 421-423)
InLookupValue(value) ==
    IF value.t = "list" THEN value
    ELSE IF value.t = "str" /\ "," \in Range(value.s)
         THEN With(Split(value.s, ","),
                   LAMBDA parts : List([i \in 1..Len(parts) |-> Str(parts[i])]))
         ELSE List(<<value>>)

\* ModelFilter._build_field_filter: None, a Q, or the exception the
\* conversion of the value raises
build_field_filter(registry, data, field_name, value, lookup) ==
    IF ~InRegistry(registry, field_name) THEN None
    ELSE
    With(Entry(registry, field_name), LAMBDA field_info :
    IF ~field_info.filterable THEN None
    ELSE
    With(IF IsNone(value) THEN get_field_values(data, field_name) ELSE value,
         LAMBDA value1 :
    IF IsNone(value1) THEN None
    ELSE
    With(ResolveLookup(field_info, lookup), LAMBDA lookup1 :
    IF value1 = Str(<<>>)
    THEN QLeaf(field_info.field_path \o LOOKUP_SEP \o <<"isnull">>, Bool(TRUE))
    ELSE With(convert_value_by_type(
                  IF lookup1 = <<"in">> THEN InLookupValue(value1) ELSE value1,
                  field_info),
              LAMBDA converted :
                  IF IsRaise(converted) THEN converted
                  ELSE QLeaf(field_info.field_path \o LOOKUP_SEP \o lookup1,
                             converted)))))


-----------------------------------------------------------------------------
(* datetime.strptime: a format is a sequence of directives ("%Y", "%m",     *)
(* ...) and literal characters.  A directive takes the run of digits in     *)
(* front of the text (between literals that are no digits the run is what   *)
(* the directive's pattern must match); a blank of the format matches one   *)
(* or more blanks; letters match in either case; the text must be used up.  *)

Directives == {"%Y", "%m", "%d", "%H", "%M", "%S"}

RECURSIVE DigitRun(_)
DigitRun(s) ==
    IF s # <<>> /\ Head(s) \in Digits THEN <<Head(s)>> \o DigitRun(Tail(s)) ELSE <<>>

\* whether the digits run is a text the directive's pattern matches
DirectiveMatches(d, run) ==
    IF d = "%Y" THEN Len(run) = 4
    ELSE /\ Len(run) \in {1, 2}
         /\ DigitsVal(run) \in (CASE d = "%m" -> 1..12
                                  [] d = "%d" -> 1..31
                                  [] d = "%H" -> 0..23
                                  [] d = "%M" -> 0..59
                                  [] d = "%S" -> 0..61)

NoFields == [Y |-> 1900, m |-> 1, d |-> 1, H |-> 0, M |-> 0, S |-> 0]

SetField(fields, d, n) ==
    CASE d = "%Y" -> [fields EXCEPT !.Y = n]
      [] d = "%m" -> [fields EXCEPT !.m = n]
      [] d = "%d" -> [fields EXCEPT !.d = n]
      [] d = "%H" -> [fields EXCEPT !.H = n]
      [] d = "%M" -> [fields EXCEPT !.M = n]
      [] d = "%S" -> [fields EXCEPT !.S = n]

\* the fields the format reads from the text, or [ok FALSE] (ValueError)
RECURSIVE MatchFormat(_, _, _)
MatchFormat(fmt, text, fields) ==
    IF fmt = <<>>
    THEN IF text = <<>> THEN [ok |-> TRUE, fields |-> fields] ELSE [ok |-> FALSE]
    ELSE IF Head(fmt) \in Directives
    THEN With(DigitRun(text), LAMBDA run :
             IF DirectiveMatches(Head(fmt), run)
             THEN MatchFormat(Tail(fmt), SubSeq(text, Len(run) + 1, Len(text)),
                              SetField(fields, Head(fmt), DigitsVal(run)))
             ELSE [ok |-> FALSE])
    ELSE IF Head(fmt) = " "
    THEN IF text # <<>> /\ Head(text) = " "
         THEN MatchFormat(Tail(fmt), LStrip(text), fields)
         ELSE [ok |-> FALSE]
    ELSE IF text # <<>> /\ LowerChar(Head(text)) = LowerChar(Head(fmt))
         THEN MatchFormat(Tail(fmt), Tail(text), fields)
         ELSE [ok |-> FALSE]

IsLeap(y) == (y % 4 = 0 /\ y % 100 # 0) \/ y % 400 = 0

DaysInMonth(y, m) ==
    IF m = 2 THEN (IF IsLeap(y) THEN 29 ELSE 28)
    ELSE IF m \in {4, 6, 9, 11} THEN 30 ELSE 31

\* datetime.datetime.strptime(text, fmt): a datetime, or None for ValueError
strptime(text, fmt) ==
    With(MatchFormat(fmt, text, NoFields), LAMBDA r :
        IF r.ok /\ r.fields.Y >= 1 /\ r.fields.d <= DaysInMonth(r.fields.Y, r.fields.m)
               /\ r.fields.S <= 59
        THEN [t |-> "datetime", Y |-> r.fields.Y, m |-> r.fields.m, d |-> r.fields.d,
              H |-> r.fields.H, M |-> r.fields.M, S |-> r.fields.S]
        ELSE None)

\* datetime.date()
DateOf(dt) == [t |-> "date", Y |-> dt.Y, m |-> dt.m, d |-> dt.d]

DATE_FORMATS ==
    << <<"%Y", "-", "%m", "-", "%d">>,
       <<"%d", "-", "%m", "-", "%Y">>,
       <<"%m", "/", "%d", "/", "%Y">>,
       <<"%d", "/", "%m", "/", "%Y">>,
       <<"%Y", "/", "%m", "/", "%d">> >>

DATETIME_FORMATS ==
    << <<"%Y", "-", "%m", "-", "%d", " ", "%H", ":", "%M", ":", "%S">>,
       <<"%Y", "-", "%m", "-", "%d", "T", "%H", ":", "%M", ":", "%S">>,
       <<"%Y", "-", "%m", "-", "%d", "T", "%H", ":", "%M", ":", "%S", "Z">>,
       <<"%Y", "-", "%m", "-", "%d", " ", "%H", ":", "%M">>,
       <<"%d", "-", "%m", "-", "%Y", " ", "%H", ":", "%M", ":", "%S">>,
       <<"%m", "/", "%d", "/", "%Y", " ", "%H", ":", "%M", ":", "%S">> >>

\* the loop over the formats going on to the last that parses
RECURSIVE LastParse(_, _)
LastParse(text, formats) ==
    IF formats = <<>> THEN None
    ELSE With(strptime(text, formats[Len(formats)]), LAMBDA r :
             IF IsNone(r) THEN LastParse(text, SubSeq(formats, 1, Len(formats) - 1))
             ELSE r)

\* the loop over the formats: the first that parses
RECURSIVE FirstParse(_, _)
FirstParse(text, formats) ==
    IF formats = <<>> THEN None
    ELSE With(strptime(text, Head(formats)), LAMBDA r :
             IF IsNone(r) THEN FirstParse(text, Tail(formats)) ELSE r)

\* ModelFilter._parse_date
parse_date(value) ==
    IF ~Truthy(value) THEN None
    ELSE With(FirstParse(value.s, DATE_FORMATS),
              LAMBDA r : IF IsNone(r) THEN None ELSE DateOf(r))

\* ModelFilter._parse_datetime
parse_datetime(value) ==
    IF ~Truthy(value) THEN None ELSE FirstParse(value.s, DATETIME_FORMATS)

\* the body shared by _build_date_range_filter and _build_datetime_range_filter
\* the value of one end of a range: parsed when the parameter is there and
\* not empty, None otherwise
RangeEnd(data, param, parse(_)) ==
    IF HasParam(data, param)
    THEN With(GetItem(data, param),
              LAMBDA text : IF Truthy(text) THEN parse(text) ELSE None)
    ELSE None

\* q_obj after the two ends have been looked at
RangeQ(field_path, min_value, max_value) ==
    IF IsNone(max_value)
    THEN (IF IsNone(min_value) THEN None
          ELSE QLeaf(field_path \o LOOKUP_SEP \o <<"gte">>, min_value))
    ELSE IF IsNone(min_value)
    THEN QLeaf(field_path \o LOOKUP_SEP \o <<"lte">>, max_value)
    ELSE QAnd(QLeaf(field_path \o LOOKUP_SEP \o <<"gte">>, min_value),
              QLeaf(field_path \o LOOKUP_SEP \o <<"lte">>, max_value))

RangeFilter(registry, data, field_name, parse(_)) ==
    IF ~InRegistry(registry, field_name) THEN None
    ELSE With(Entry(registry, field_name), LAMBDA field_info :
             IF ~field_info.filterable THEN None
             ELSE RangeQ(field_info.field_path,
                         RangeEnd(data, field_info.field_path \o <<"_min">>, parse),
                         RangeEnd(data, field_info.field_path \o <<"_max">>, parse)))

\* ModelFilter._build_date_range_filter
build_date_range_filter(registry, data, field_name) ==
    RangeFilter(registry, data, field_name, parse_date)

\* ModelFilter._build_datetime_range_filter
build_datetime_range_filter(registry, data, field_name) ==
    RangeFilter(registry, data, field_name, parse_datetime)


-----------------------------------------------------------------------------
(* Search predicate *)

\* the enum values whose label holds the term, from as_tuples() or choices
RECURSIVE MatchingValues(_, _)
MatchingValues(pairs, search_term) ==
    IF pairs = <<>> THEN <<>>
    ELSE (IF Contains(Lower(Head(pairs)[2]), Lower(search_term))
          THEN <<Head(pairs)[1]>> ELSE <<>>)
         \o MatchingValues(Tail(pairs), search_term)

EnumMatchingValues(enum_class, search_term) ==
    IF ~IsNone(enum_class.as_tuples)
    THEN MatchingValues(enum_class.as_tuples.items, search_term)
    ELSE IF ~IsNone(enum_class.choices)
    THEN MatchingValues(enum_class.choices.items, search_term)
    ELSE <<>>

\* the loop of _build_search_filter over the registry
RECURSIVE SearchLoop(_, _, _)
SearchLoop(entries, search_term, q_obj) ==
    IF entries = <<>> THEN q_obj
    ELSE
    LET field_info == Head(entries)
        matching_values == EnumMatchingValues(field_info.enum_class, search_term)
        next ==
            IF ~field_info.searchable THEN q_obj
            ELSE IF field_info.type = "text"
            THEN QOr(q_obj, QLeaf(field_info.field_path \o LOOKUP_SEP \o <<"icontains">>,
                                  Str(search_term)))
            ELSE IF field_info.type = "enum" /\ Truthy(field_info.enum_class)
                    /\ Len(matching_values) > 0
            THEN QOr(q_obj, QLeaf(field_info.field_path \o LOOKUP_SEP \o <<"in">>,
                                  List(matching_values)))
            ELSE q_obj
    IN  SearchLoop(Tail(entries), search_term, next)

\* ModelFilter._build_search_filter: None or a Q (Q() when no field adds a test)
build_search_filter(registry, data) ==
    LET search_term == get_field_values(data, SEARCH_PARAM)
    IN  IF ~Truthy(search_term) \/ search_term.t # "str" THEN None
        ELSE IF Strip(search_term.s) = <<>> THEN None
        ELSE SearchLoop(registry, Strip(search_term.s), QEmpty)

-----------------------------------------------------------------------------
(* Ordering *)

\* [field.strip() for field in ordering_param.split(',') if field.strip()]
RECURSIVE StripNonEmpty(_)
StripNonEmpty(parts) ==
    IF parts = <<>> THEN <<>>
    ELSE (IF Strip(Head(parts)) # <<>> THEN <<Strip(Head(parts))>> ELSE <<>>)
         \o StripNonEmpty(Tail(parts))

\* one pass of the loop of _apply_ordering, with the field's path under the
\* token's own name
OrderingStepKeepsName(registry, valid_ordering, field) ==
    IF InRegistry(registry, IF StartsWith(field, <<"-">>) THEN Tail(field) ELSE field)
    THEN Append(valid_ordering, field)
    ELSE valid_ordering

\* one pass of the loop of _apply_ordering (lines 589-602)
OrderingStep(registry, valid_ordering, field) ==
    With(IF StartsWith(field, <<"-">>)
         THEN [prefix |-> <<"-">>, field_name |-> Tail(field)]
         ELSE [prefix |-> <<>>, field_name |-> field],
         LAMBDA token :
             IF InRegistry(registry, token.field_name)
             THEN Append(valid_ordering,
                         token.prefix \o Entry(registry, token.field_name).field_path)
             ELSE valid_ordering)

\* the loop of _apply_ordering over the tokens
RECURSIVE OrderingLoop(_, _, _)
OrderingLoop(registry, ordering_fields, valid_ordering) ==
    IF ordering_fields = <<>> THEN valid_ordering
    ELSE With(OrderingStep(registry, valid_ordering, Head(ordering_fields)),
              LAMBDA next : OrderingLoop(registry, Tail(ordering_fields), next))

\* self._get_field_values(ORDERING_PARAM) or DEFAULT_ORDERING
OrderingParam(given) == IF Truthy(given) THEN given ELSE Str(DEFAULT_ORDERING)

\* the tokens: the list as it is, a str split at the commas
OrderingFields(ordering_param) ==
    IF ordering_param.t = "list"
    THEN [i \in 1..Len(ordering_param.items) |-> ordering_param.items[i].s]
    ELSE StripNonEmpty(Split(ordering_param.s, ","))

apply_ordering(registry, data) ==
    OrderingLoop(registry,
                 OrderingFields(OrderingParam(get_field_values(data, ORDERING_PARAM))),
                 <<>>)


-----------------------------------------------------------------------------
(* Decoding the advanced-filter parameter *)

HexDigits == Digits \cup {"A", "B", "C", "D", "E", "F", "a", "b", "c", "d", "e", "f"}

\* the character a %xx escape stands for; outside the atoms of this model
\* it is the atom "\xHH"
Unescape(h1, h2) ==
    CASE h1 = "3" /\ h2 \in Digits -> h2
      [] h1 = "2" /\ h2 = "0" -> " "
      [] h1 = "2" /\ h2 = "5" -> "%"
      [] h1 = "2" /\ h2 \in {"D", "d"} -> "-"
      [] h1 = "7" /\ h2 = "8" -> "x"
      [] OTHER -> "\\x" \o UpperChar(h1) \o UpperChar(h2)

\* urllib.parse.unquote: every %xx escape replaced, anything else kept
RECURSIVE unquote(_)
unquote(s) ==
    IF s = <<>> THEN <<>>
    ELSE IF Head(s) = "%" /\ Len(s) >= 3 /\ s[2] \in HexDigits /\ s[3] \in HexDigits
    THEN <<Unescape(s[2], s[3])>> \o unquote(SubSeq(s, 4, Len(s)))
    ELSE <<Head(s)>> \o unquote(Tail(s))

\* json.loads of a text without quotes, brackets and braces: a number
\* without leading zeros, true, false, null; anything else is a
\* JSONDecodeError.  The text [t "json", doc] decodes to doc.
json_loads(text) ==
    IF text.t = "json" THEN text.doc
    ELSE
    With(Strip(unquote(text.s)), LAMBDA body :
    With(IF body # <<>> /\ Head(body) = "-" THEN Tail(body) ELSE body, LAMBDA digits :
        IF AllDigits(digits) /\ (Len(digits) = 1 \/ Head(digits) # "0")
        THEN PyInt((IF body = digits THEN 1 ELSE -1) * DigitsVal(digits))
        ELSE IF body = <<"t", "r", "u", "e">> THEN Bool(TRUE)
        ELSE IF body = <<"f", "a", "l", "s", "e">> THEN Bool(FALSE)
        ELSE IF body = <<"n", "u", "l", "l">> THEN None
        ELSE Raise("JSONDecodeError")))

-----------------------------------------------------------------------------
(* The advanced-filter tree *)

\* key in config: membership in a dict's keys, substring of a str, element
\* of a list; a TypeError for a value that is no container
CanContain(node) == node.t \in {"dict", "str", "list"}

KeyIn(key, node) ==
    CASE node.t = "dict" -> key \in DOMAIN node.m
      [] node.t = "str" -> Contains(node.s, <<key>>)
      [] node.t = "list" -> \E i \in 1..Len(node.items) : node.items[i] = Str(<<key>>)

\* conditions as the sequence conditions[0], conditions[1:] walks: the
\* items of a list, the characters of a str; subscripting anything else raises
Subscriptable(conditions) == conditions.t \in {"list", "str"}

Elements(conditions) ==
    IF conditions.t = "list" THEN conditions.items
    ELSE [i \in 1..Len(conditions.s) |-> Str(<<conditions.s[i]>>)]

SubscriptError(conditions) ==
    IF conditions.t = "dict" THEN Raise("KeyError") ELSE Raise("TypeError")

\* AND and OR exchanged
CombineExchanged(operator, q_object, next_q) ==
    IF operator = <<"O", "R">> THEN QAnd(q_object, next_q)
    ELSE QOr(q_object, next_q)

\* q_object &= next_q / q_object |= next_q, by the upper-cased operator
Combine(operator, q_object, next_q) ==
    IF operator = <<"A", "N", "D">> THEN QAnd(q_object, next_q)
    ELSE IF operator = <<"O", "R">> THEN QOr(q_object, next_q)
    ELSE QAnd(q_object, next_q)

\* ModelFilter._build_filter_object: None, a Q, or the exception it raises
RECURSIVE build_filter_object(_, _, _)
RECURSIVE CombineRest(_, _, _, _, _)

\* the loop giving up at the first condition that resolves to nothing
RECURSIVE CombineRestStopping(_, _, _, _, _)
CombineRestStopping(registry, data, operator, rest, q_object) ==
    IF rest = <<>> THEN q_object
    ELSE
    With(build_filter_object(registry, data, Head(rest)), LAMBDA next_q :
        IF IsRaise(next_q) \/ IsNone(next_q) THEN next_q
        ELSE CombineRestStopping(registry, data, operator, Tail(rest),
                                 Combine(operator, q_object, next_q)))

\* the loop over conditions[1:]
CombineRest(registry, data, operator, rest, q_object) ==
    IF rest = <<>> THEN q_object
    ELSE
    With(build_filter_object(registry, data, Head(rest)), LAMBDA next_q :
        IF IsRaise(next_q) THEN next_q
        ELSE CombineRest(registry, data, operator, Tail(rest),
                         IF IsNone(next_q) THEN q_object
                         ELSE Combine(operator, q_object, next_q)))

build_filter_object(registry, data, node) ==
    IF ~CanContain(node) THEN Raise("TypeError")
    ELSE IF KeyIn("operator", node) /\ KeyIn("conditions", node)
    THEN IF node.t # "dict" THEN Raise("TypeError")
         ELSE IF node.m.operator.t # "str" THEN Raise("AttributeError")
         ELSE IF ~Truthy(node.m.conditions) THEN None
         ELSE IF ~Subscriptable(node.m.conditions) THEN SubscriptError(node.m.conditions)
         ELSE
         With(Elements(node.m.conditions), LAMBDA conditions :
         With(build_filter_object(registry, data, conditions[1]), LAMBDA q_object :
             IF IsRaise(q_object) \/ IsNone(q_object) THEN q_object
             ELSE CombineRest(registry, data, Upper(node.m.operator.s),
                              Tail(conditions), q_object)))
    ELSE IF KeyIn("field", node) /\ KeyIn("value", node)
    THEN IF node.t # "dict" THEN Raise("TypeError")
         ELSE IF node.m.field.t \in {"list", "dict"} THEN Raise("TypeError")
         ELSE IF node.m.field.t # "str" \/ ~InRegistry(registry, node.m.field.s)
         THEN None
         ELSE build_field_filter(registry, data, node.m.field.s, node.m.value,
                                 IF "lookup" \in DOMAIN node.m THEN node.m.lookup
                                 ELSE None)
    ELSE None

\* ModelFilter._parse_advanced_filter: None, a Q, or the exception that escapes
parse_advanced_filter(registry, data) ==
    With(get_field_values(data, ADVANCED_FILTER_PARAM), LAMBDA filter_param :
        IF ~Truthy(filter_param) THEN None
        ELSE
        With(IF filter_param.t \in {"str", "json"} THEN json_loads(filter_param)
             ELSE filter_param,
             LAMBDA filter_config :
                 IF IsRaise(filter_config) THEN None
                 ELSE build_filter_object(registry, data, filter_config)))


-----------------------------------------------------------------------------
(* The rows of each model's table: a row maps a field path to the value     *)
(* stored (None for NULL).  Product and Category hold the rows that         *)
(* tests/test_filters.py creates; prices are in hundredths.                 *)

ProductRows ==
  <<
     (  (<<"id">> :> PyInt(1))
        @@ (<<"created_date">> :> [t |-> "datetime", Y |-> 2024, m |-> 1, d |-> 10, H |-> 9, M |-> 0, S |-> 0])
        @@ (<<"last_modified_date">> :> [t |-> "datetime", Y |-> 2024, m |-> 1, d |-> 10, H |-> 9, M |-> 0, S |-> 0])
        @@ (<<"is_deleted">> :> Bool(FALSE))
        @@ (<<"deleted_at">> :> None)
        @@ (<<"name">> :> Str(<<"L", "a", "p", "t", "o", "p">>))
        @@ (<<"description">> :> Str(<<"P", "o", "w", "e", "r", "f", "u", "l", " ", "l", "a", "p", "t", "o", "p">>))
        @@ (<<"price">> :> Float(129999))
        @@ (<<"category">> :> PyInt(1))
        @@ (<<"created_at">> :> [t |-> "datetime", Y |-> 2024, m |-> 1, d |-> 10, H |-> 9, M |-> 0, S |-> 0])
        @@ (<<"is_active">> :> Bool(TRUE))
        @@ (<<"category", "__", "id">> :> PyInt(1))
        @@ (<<"category", "__", "created_date">> :> [t |-> "datetime", Y |-> 2023, m |-> 1, d |-> 1, H |-> 0, M |-> 0, S |-> 0])
        @@ (<<"category", "__", "last_modified_date">> :> [t |-> "datetime", Y |-> 2023, m |-> 1, d |-> 1, H |-> 0, M |-> 0, S |-> 0])
        @@ (<<"category", "__", "is_deleted">> :> Bool(FALSE))
        @@ (<<"category", "__", "deleted_at">> :> None)
        @@ (<<"category", "__", "name">> :> Str(<<"E", "l", "e", "c", "t", "r", "o", "n", "i", "c", "s">>)) ),
     (  (<<"id">> :> PyInt(2))
        @@ (<<"created_date">> :> [t |-> "datetime", Y |-> 2024, m |-> 2, d |-> 20, H |-> 12, M |-> 30, S |-> 0])
        @@ (<<"last_modified_date">> :> [t |-> "datetime", Y |-> 2024, m |-> 2, d |-> 20, H |-> 12, M |-> 30, S |-> 0])
        @@ (<<"is_deleted">> :> Bool(FALSE))
        @@ (<<"deleted_at">> :> None)
        @@ (<<"name">> :> Str(<<"P", "h", "o", "n", "e">>))
        @@ (<<"description">> :> Str(<<"S", "m", "a", "r", "t", "p", "h", "o", "n", "e">>))
        @@ (<<"price">> :> Float(79999))
        @@ (<<"category">> :> PyInt(1))
        @@ (<<"created_at">> :> [t |-> "datetime", Y |-> 2024, m |-> 2, d |-> 20, H |-> 12, M |-> 30, S |-> 0])
        @@ (<<"is_active">> :> Bool(TRUE))
        @@ (<<"category", "__", "id">> :> PyInt(1))
        @@ (<<"category", "__", "created_date">> :> [t |-> "datetime", Y |-> 2023, m |-> 1, d |-> 1, H |-> 0, M |-> 0, S |-> 0])
        @@ (<<"category", "__", "last_modified_date">> :> [t |-> "datetime", Y |-> 2023, m |-> 1, d |-> 1, H |-> 0, M |-> 0, S |-> 0])
        @@ (<<"category", "__", "is_deleted">> :> Bool(FALSE))
        @@ (<<"category", "__", "deleted_at">> :> None)
        @@ (<<"category", "__", "name">> :> Str(<<"E", "l", "e", "c", "t", "r", "o", "n", "i", "c", "s">>)) ),
     (  (<<"id">> :> PyInt(3))
        @@ (<<"created_date">> :> [t |-> "datetime", Y |-> 2024, m |-> 3, d |-> 5, H |-> 0, M |-> 0, S |-> 0])
        @@ (<<"last_modified_date">> :> [t |-> "datetime", Y |-> 2024, m |-> 3, d |-> 5, H |-> 0, M |-> 0, S |-> 0])
        @@ (<<"is_deleted">> :> Bool(FALSE))
        @@ (<<"deleted_at">> :> None)
        @@ (<<"name">> :> Str(<<"P", "y", "t", "h", "o", "n", " ", "B", "o", "o", "k">>))
        @@ (<<"description">> :> Str(<<"L", "e", "a", "r", "n", " ", "P", "y", "t", "h", "o", "n", " ", "p", "r", "o", "g", "r", "a", "m", "m", "i", "n", "g">>))
        @@ (<<"price">> :> Float(4999))
        @@ (<<"category">> :> PyInt(2))
        @@ (<<"created_at">> :> [t |-> "datetime", Y |-> 2024, m |-> 3, d |-> 5, H |-> 0, M |-> 0, S |-> 0])
        @@ (<<"is_active">> :> Bool(TRUE))
        @@ (<<"category", "__", "id">> :> PyInt(2))
        @@ (<<"category", "__", "created_date">> :> [t |-> "datetime", Y |-> 2023, m |-> 1, d |-> 2, H |-> 0, M |-> 0, S |-> 0])
        @@ (<<"category", "__", "last_modified_date">> :> [t |-> "datetime", Y |-> 2023, m |-> 1, d |-> 2, H |-> 0, M |-> 0, S |-> 0])
        @@ (<<"category", "__", "is_deleted">> :> Bool(FALSE))
        @@ (<<"category", "__", "deleted_at">> :> None)
        @@ (<<"category", "__", "name">> :> Str(<<"B", "o", "o", "k", "s">>)) ),
     (  (<<"id">> :> PyInt(4))
        @@ (<<"created_date">> :> [t |-> "datetime", Y |-> 2023, m |-> 12, d |-> 31, H |-> 23, M |-> 59, S |-> 59])
        @@ (<<"last_modified_date">> :> [t |-> "datetime", Y |-> 2023, m |-> 12, d |-> 31, H |-> 23, M |-> 59, S |-> 59])
        @@ (<<"is_deleted">> :> Bool(FALSE))
        @@ (<<"deleted_at">> :> None)
        @@ (<<"name">> :> Str(<<"O", "l", "d", " ", "P", "h", "o", "n", "e">>))
        @@ (<<"description">> :> Str(<<"D", "i", "s", "c", "o", "n", "t", "i", "n", "u", "e", "d", " ", "m", "o", "d", "e", "l">>))
        @@ (<<"price">> :> Float(29999))
        @@ (<<"category">> :> PyInt(1))
        @@ (<<"created_at">> :> [t |-> "datetime", Y |-> 2023, m |-> 12, d |-> 31, H |-> 23, M |-> 59, S |-> 59])
        @@ (<<"is_active">> :> Bool(FALSE))
        @@ (<<"category", "__", "id">> :> PyInt(1))
        @@ (<<"category", "__", "created_date">> :> [t |-> "datetime", Y |-> 2023, m |-> 1, d |-> 1, H |-> 0, M |-> 0, S |-> 0])
        @@ (<<"category", "__", "last_modified_date">> :> [t |-> "datetime", Y |-> 2023, m |-> 1, d |-> 1, H |-> 0, M |-> 0, S |-> 0])
        @@ (<<"category", "__", "is_deleted">> :> Bool(FALSE))
        @@ (<<"category", "__", "deleted_at">> :> None)
        @@ (<<"category", "__", "name">> :> Str(<<"E", "l", "e", "c", "t", "r", "o", "n", "i", "c", "s">>)) )
  >>

CategoryRows ==
  <<
     (  (<<"id">> :> PyInt(1))
        @@ (<<"created_date">> :> [t |-> "datetime", Y |-> 2023, m |-> 1, d |-> 1, H |-> 0, M |-> 0, S |-> 0])
        @@ (<<"last_modified_date">> :> [t |-> "datetime", Y |-> 2023, m |-> 1, d |-> 1, H |-> 0, M |-> 0, S |-> 0])
        @@ (<<"is_deleted">> :> Bool(FALSE))
        @@ (<<"deleted_at">> :> None)
        @@ (<<"name">> :> Str(<<"E", "l", "e", "c", "t", "r", "o", "n", "i", "c", "s">>)) ),
     (  (<<"id">> :> PyInt(2))
        @@ (<<"created_date">> :> [t |-> "datetime", Y |-> 2023, m |-> 1, d |-> 2, H |-> 0, M |-> 0, S |-> 0])
        @@ (<<"last_modified_date">> :> [t |-> "datetime", Y |-> 2023, m |-> 1, d |-> 2, H |-> 0, M |-> 0, S |-> 0])
        @@ (<<"is_deleted">> :> Bool(FALSE))
        @@ (<<"deleted_at">> :> None)
        @@ (<<"name">> :> Str(<<"B", "o", "o", "k", "s">>)) )
  >>

TicketRows ==
  <<
     (  (<<"code">> :> Str(<<"A", "1">>))
        @@ (<<"status">> :> PyInt(1))
        @@ (<<"priority">> :> PyInt(1))
        @@ (<<"due">> :> [t |-> "date", Y |-> 2024, m |-> 1, d |-> 15])
        @@ (<<"stock">> :> PyInt(5)) ),
     (  (<<"code">> :> Str(<<"B", "2">>))
        @@ (<<"status">> :> PyInt(2))
        @@ (<<"priority">> :> PyInt(2))
        @@ (<<"due">> :> [t |-> "date", Y |-> 2024, m |-> 2, d |-> 1])
        @@ (<<"stock">> :> PyInt(0)) ),
     (  (<<"code">> :> Str(<<"C", "3">>))
        @@ (<<"status">> :> PyInt(1))
        @@ (<<"priority">> :> PyInt(2))
        @@ (<<"due">> :> [t |-> "date", Y |-> 2024, m |-> 12, d |-> 31])
        @@ (<<"stock">> :> PyInt(12)) )
  >>

ReviewRows ==
  <<
     (  (<<"id">> :> PyInt(1))
        @@ (<<"product">> :> PyInt(1))
        @@ (<<"name">> :> Str(<<"G", "o", "o", "d">>))
        @@ (<<"product", "_", "name">> :> Str(<<"L", "a", "p", "t", "o", "p">>)) ),
     (  (<<"id">> :> PyInt(2))
        @@ (<<"product">> :> PyInt(3))
        @@ (<<"name">> :> Str(<<"g", "o", "o", "d", " ", "1">>))
        @@ (<<"product", "_", "name">> :> Str(<<"T", "-", "s", "h", "i", "r", "t">>)) )
  >>

\* the table of a model: model.objects.all() is the set of its row numbers
Table(m) ==
    CASE m = "Product" -> ProductRows
      [] m = "Category" -> CategoryRows
      [] m = "Ticket" -> TicketRows
      [] m = "Review" -> ReviewRows

AllRows(m) == DOMAIN Table(m)

\* the value a row stores at a path
RowValue(row, path) == IF path \in DOMAIN row THEN row[path] ELSE None


-----------------------------------------------------------------------------
(* queryset.filter(query): the rows a Q selects, as the database does       *)

\* a number, a date or a datetime on one scale, for comparisons
IsNumber(v) == v.t \in {"int", "float"}
IsMoment(v) == v.t \in {"date", "datetime"}
Comparable(a, b) == (IsNumber(a) /\ IsNumber(b)) \/ (IsMoment(a) /\ IsMoment(b))

\* a number as <<hundredths, 0>>, a moment as <<its day, its second of the day>>
Scale(v) ==
    CASE v.t = "int" -> <<100 * v.n, 0>>
      [] v.t = "float" -> <<v.n, 0>>
      [] v.t = "date" -> <<(v.Y * 12 + v.m) * 31 + v.d, 0>>
      [] v.t = "datetime" -> <<(v.Y * 12 + v.m) * 31 + v.d, (v.H * 60 + v.M) * 60 + v.S>>

\* the order of two values on the scale
Less(a, b) == a[1] < b[1] \/ (a[1] = b[1] /\ a[2] < b[2])

\* the value of the query prepared for a column that stores `stored`
Prepared(value, stored) ==
    IF value.t = "str" /\ IsNumber(stored)
    THEN (IF FloatParses(value.s) THEN Float(FloatOf(value.s)) ELSE None)
    ELSE value

\* equality of a stored value and a prepared one
Same(stored, v) ==
    IF Comparable(stored, v) THEN Scale(stored) = Scale(v) ELSE stored = v

SameValue(stored, value) == Same(stored, Prepared(value, stored))

\* the lookups on text
TextLookup(lookup, s, v) ==
    CASE lookup = "iexact" -> Lower(s) = Lower(v)
      [] lookup = "contains" -> Contains(s, v)
      [] lookup = "icontains" -> Contains(Lower(s), Lower(v))
      [] lookup = "startswith" -> StartsWith(s, v)
      [] lookup = "istartswith" -> StartsWith(Lower(s), Lower(v))

\* the lookups on an order, for two values on one scale
Compare(lookup, a, b) ==
    CASE lookup = "gt" -> Less(b, a)
      [] lookup = "gte" -> ~Less(a, b)
      [] lookup = "lt" -> Less(a, b)
      [] lookup = "lte" -> ~Less(b, a)

\* low <= stored <= high
Between(stored, low, high) ==
    /\ Comparable(stored, low) /\ Comparable(stored, high)
    /\ ~Less(Scale(stored), Scale(low)) /\ ~Less(Scale(high), Scale(stored))

\* one lookup on one stored value
Lookup(lookup, stored, value) ==
    IF lookup = "isnull" THEN IsNone(stored) = Truthy(value)
    ELSE IF IsNone(stored) THEN FALSE
    ELSE IF lookup = "in"
    THEN value.t = "list"
         /\ \E i \in 1..Len(value.items) : SameValue(stored, value.items[i])
    ELSE IF lookup = "range"
    THEN /\ value.t = "list" /\ Len(value.items) = 2
         /\ Between(stored, Prepared(value.items[1], stored),
                    Prepared(value.items[2], stored))
    ELSE With(Prepared(value, stored), LAMBDA v :
             IF lookup = "exact" THEN Same(stored, v)
             ELSE IF lookup \in {"iexact", "contains", "icontains", "startswith",
                                 "istartswith"}
             THEN stored.t = "str" /\ v.t = "str" /\ TextLookup(lookup, stored.s, v.s)
             ELSE IF lookup \in {"gt", "gte", "lt", "lte"}
             THEN Comparable(stored, v) /\ Compare(lookup, Scale(stored), Scale(v))
             ELSE FALSE)

RECURSIVE Selects(_, _)
Selects(q, row) ==
    CASE q.op = "empty" -> TRUE
      [] q.op = "AND" -> Selects(q.l, row) /\ Selects(q.r, row)
      [] q.op = "OR" -> Selects(q.l, row) \/ Selects(q.r, row)
      [] q.op = "leaf" ->
            Lookup(q.key[Len(q.key)],
                   RowValue(row, SubSeq(q.key, 1, Len(q.key) - 2)),
                   q.value)

\* queryset.filter(query)
Filter(m, rows, query) == {r \in rows : Selects(query, Table(m)[r])}

-----------------------------------------------------------------------------
(* ModelFilter.apply *)

\* the loop over the registry for the range filters (lines 810-823)
RECURSIVE RangeLoop(_, _, _, _)
RangeLoop(registry, data, entries, query) ==
    IF entries = <<>> THEN query
    ELSE IF ~Head(entries).range_filter
            \/ Head(entries).type \notin {"date", "datetime"}
    THEN RangeLoop(registry, data, Tail(entries), query)
    ELSE With(IF Head(entries).type = "date"
              THEN build_date_range_filter(registry, data, Head(entries).name)
              ELSE build_datetime_range_filter(registry, data, Head(entries).name),
              LAMBDA range_q :
                  RangeLoop(registry, data, Tail(entries),
                            IF Truthy(range_q) THEN QAnd(query, range_q) ELSE query))

\* param.endswith(suffix) for one of DATE_RANGE_SUFFIXES
HasRangeSuffix(param) ==
    \E i \in 1..Len(DATE_RANGE_SUFFIXES) : EndsWith(param, DATE_RANGE_SUFFIXES[i])

\* the loop over the request parameters (lines 826-838)
RECURSIVE ParamLoop(_, _, _, _, _)
ParamLoop(registry, data, params, processed_fields, query) ==
    IF params = <<>> THEN query
    ELSE IF \/ Head(params) \in {SEARCH_PARAM, ORDERING_PARAM, ADVANCED_FILTER_PARAM}
            \/ HasRangeSuffix(Head(params))
            \/ ~InRegistry(registry, Head(params))
            \/ Head(params) \in processed_fields
    THEN ParamLoop(registry, data, Tail(params), processed_fields, query)
    ELSE With(build_field_filter(registry, data, Head(params), None, None),
              LAMBDA field_q :
                  IF IsRaise(field_q) THEN field_q
                  ELSE
                  ParamLoop(registry, data, Tail(params),
                            processed_fields \cup {Head(params)},
                            IF Truthy(field_q) THEN QAnd(query, field_q) ELSE query))

\* the else branch without search and ranges: the field parameters alone
FlatQueryOfFields(registry, data) == ParamLoop(registry, data, Keys(data), {}, QEmpty)

\* the else branch of apply: search, ranges, then the field parameters
FlatQuery(registry, data) ==
    With(build_search_filter(registry, data), LAMBDA search_q :
    With(RangeLoop(registry, data, registry,
                   IF Truthy(search_q) THEN QAnd(QEmpty, search_q) ELSE QEmpty),
         LAMBDA query : ParamLoop(registry, data, Keys(data), {}, query)))

\* the query apply() hands to filter(), or the exception that escapes
BuildQuery(registry, data) ==
    With(parse_advanced_filter(registry, data), LAMBDA advanced_q :
        IF IsRaise(advanced_q) THEN advanced_q
        ELSE IF Truthy(advanced_q) THEN QAnd(QEmpty, advanced_q)
        ELSE FlatQuery(registry, data))

\* apply() without its early return
NeverApplied(fq) == FALSE

\* whether apply() takes the early return of line 793
AlreadyApplied(fq) == ~IsNone(fq)

FilterCall(query) == [op |-> "filter", args |-> query]
OrderByCall(ordering) == [op |-> "order_by", args |-> ordering]

\* queryset.filter(query), then order_by(*ordering) when there are sort keys
Queried(m, queryset, query, ordering) ==
    [fq |-> [t |-> "queryset", rows |-> Filter(m, queryset.rows, query),
             order_by |-> ordering],
     issued |-> <<FilterCall(query)>>
                \o (IF Len(ordering) > 0 THEN <<OrderByCall(ordering)>> ELSE <<>>)]

\* the state apply() leaves: filtered_queryset, the calls issued, the
\* exception that escaped ("" for none)
ApplyResult ==
    IF AlreadyApplied(filtered_queryset)
    THEN [fq |-> filtered_queryset, issued |-> <<>>, raised |-> ""]
    ELSE With(BuildQuery(field_registry, request_data), LAMBDA query :
             IF IsRaise(query)
             THEN [fq |-> filtered_queryset, issued |-> <<>>, raised |-> query.exc]
             ELSE Queried(model, base_queryset, query,
                          apply_ordering(field_registry, request_data))
                  @@ [raised |-> ""])

\* ModelFilter.apply()
Apply ==
    /\ calls < MaxCalls
    /\ \E r \in {ApplyResult} :
            /\ filtered_queryset' = r.fq
            /\ collaborator' = collaborator \o r.issued
            /\ outcome' = [op |-> "apply", raised |-> r.raised]
    /\ calls' = calls + 1
    /\ UNCHANGED <<model, config, field_registry, request_data, base_queryset,
                   thread_locals, handling, given_queryset, registered>>

\* ModelFilter.qs: apply() when nothing is computed yet, then the result
ReadQs ==
    /\ calls < MaxCalls
    /\ \E r \in {ApplyResult} :
            /\ filtered_queryset' = r.fq
            /\ collaborator' = collaborator \o r.issued
            /\ outcome' = [op |-> "qs", raised |-> r.raised]
    /\ calls' = calls + 1
    /\ UNCHANGED <<model, config, field_registry, request_data, base_queryset,
                   thread_locals, handling, given_queryset, registered>>

Next == Apply \/ ReadQs


-----------------------------------------------------------------------------
(* Construction, and the specifications: one ModelFilter, built for a       *)
(* model and a request, on which apply() and qs are called                  *)

\* the worker threads, and a thread-local store nothing was put in
Threads == {"worker1", "worker2"}
NoRequests == [thread \in Threads |-> None]

\* every text of at most n atoms over an alphabet
StringsUpTo(alphabet, n) == UNION {[1..k -> alphabet] : k \in 0..n}

NoConfig == [filter_fields |-> <<>>, search_fields |-> <<>>]

\* a queryset: the rows it holds and the names of its annotations
QuerySet(rows, annotations) ==
    [t |-> "queryset", rows |-> rows, annotations |-> annotations]

\* bool(queryset): None is false, a QuerySet is true when it holds a row
QuerysetTruthy(qs) == ~IsNone(qs) /\ qs.rows # {}

\* queryset or model.objects.all()
BaseQueryset(m, qs) == IF QuerysetTruthy(qs) THEN qs ELSE QuerySet(AllRows(m), <<>>)

\* ModelFilter.__init__(model, request_data, queryset, config) has returned
ConstructedFrom(m, cfg, qs, data) ==
    /\ model = m
    /\ config = cfg
    /\ given_queryset = qs
    /\ base_queryset = BaseQueryset(m, qs)
    /\ field_registry = BuildRegistry(m, cfg, BaseQueryset(m, qs).annotations)
    /\ registered = Len(RegistrationCalls(m, BaseQueryset(m, qs).annotations))
    /\ request_data = data
    /\ filtered_queryset = None
    /\ collaborator = <<>>
    /\ outcome = [op |-> "init", raised |-> ""]
    /\ calls = 0
    /\ thread_locals = NoRequests
    /\ handling = NoRequests

\* the queryset given is model.objects.all() with the annotations named
ConstructedOn(m, cfg, annotations, data) ==
    ConstructedFrom(m, cfg, QuerySet(AllRows(m), annotations), data)

\* ModelFilter.__init__(model, request_data, config=cfg): no queryset
ConstructedWith(m, cfg, data) == ConstructedFrom(m, cfg, None, data)

\* ModelFilter.__init__(model, request_data): no queryset, no config
Constructed(m, data) == ConstructedWith(m, NoConfig, data)

\* the calls made so far have all returned
Returned == outcome.op # "init" /\ outcome.raised = ""

\* the sort keys handed to order_by, none when order_by was not called
OrderByArgs ==
    IF \E i \in DOMAIN collaborator : collaborator[i].op = "order_by"
    THEN collaborator[CHOOSE i \in DOMAIN collaborator :
                          collaborator[i].op = "order_by"].args
    ELSE <<>>

\* the predicate handed to filter()
FilterArgs ==
    collaborator[CHOOSE i \in DOMAIN collaborator : collaborator[i].op = "filter"].args

-----------------------------------------------------------------------------
(* Requests that carry `ordering`: one value, the tokens below joined by    *)
(* commas, or one value per token (which reads as a list)                   *)

OrderTokens ==
    { <<"id">>, <<"-", "id">>, <<" ", "id">>, <<"zz">>, <<"-", "zz">>,
      <<"category", "_", "name">>, <<"-", "category", "_", "name">>, <<>> }

OrderingModels == {"Product", "Ticket"}

\* the tokens with commas between them
RECURSIVE Joined(_)
Joined(tokens) ==
    IF Len(tokens) = 1 THEN tokens[1]
    ELSE tokens[1] \o <<",">> \o Joined(Tail(tokens))

OrderingRequests ==
    {<<>>}
    \cup {<<Param(ORDERING_PARAM, Str(Joined(tokens)))>> :
            tokens \in StringsUpTo(OrderTokens, MaxOrderTokens) \ {<<>>}}
    \cup {[i \in 1..Len(tokens) |-> Param(ORDERING_PARAM, Str(tokens[i]))] :
            tokens \in StringsUpTo(OrderTokens, MaxOrderTokens) \ {<<>>}}

InitOrdering == \E m \in OrderingModels, data \in OrderingRequests : Constructed(m, data)

SpecOrdering == InitOrdering /\ [][Next]_vars

\* the value given for `ordering`: a str, a list of str, None when absent
GivenOrdering == get_field_values(request_data, ORDERING_PARAM)

\* the tokens of an `ordering` value: the items of a list, the parts of a
\* comma-separated str without the blanks around them, empty parts left out
Tokens(value) ==
    IF value.t = "list" THEN [i \in 1..Len(value.items) |-> value.items[i].s]
    ELSE SelectSeq([i \in 1..Len(Split(value.s, ",")) |-> Strip(Split(value.s, ",")[i])],
                   LAMBDA part : part # <<>>)

\* the field a token names, and the sign it carries
TokenName(token) == IF StartsWith(token, <<"-">>) THEN Tail(token) ELSE token
TokenSign(token) == IF StartsWith(token, <<"-">>) THEN <<"-">> ELSE <<>>

\* the tokens that name registered fields, each as its sort key
SortKeys(tokens) ==
    With(SelectSeq(tokens, LAMBDA token : InRegistry(field_registry, TokenName(token))),
         LAMBDA kept :
             [i \in 1..Len(kept) |->
                 TokenSign(kept[i])
                 \o Entry(field_registry, TokenName(kept[i])).field_path])

\* C5: when `ordering` is given and none of its tokens names a registered
\* field, order_by is issued with the default key -id.
C5_UnregisteredFallsBack ==
    (/\ Returned
     /\ ~IsNone(GivenOrdering)
     /\ Len(Tokens(GivenOrdering)) > 0
     /\ SortKeys(Tokens(GivenOrdering)) = <<>>)
    => OrderByArgs = <<DEFAULT_ORDERING>>

\* C6 as stated: the sort keys are the registered tokens of the `ordering`
\* value in their order, each as its field_path with its `-` kept; with no
\* `ordering` parameter they are [-id].
C6_SortKeysAsStated ==
    Returned =>
        OrderByArgs = IF IsNone(GivenOrdering) THEN <<DEFAULT_ORDERING>>
                      ELSE SortKeys(Tokens(GivenOrdering))

\* C6: the sort keys are the registered tokens of the `ordering` value in
\* their order, each as its field_path with its `-` kept; when `ordering`
\* is absent or empty they are what this rule gives for the one token -id
\* (nothing when the registry has no `id`).
C6_SortKeys ==
    Returned =>
        OrderByArgs = SortKeys(IF Truthy(GivenOrdering) THEN Tokens(GivenOrdering)
                               ELSE <<DEFAULT_ORDERING>>)

\* two registered tokens, one descending, one whose path is not its name
C6_Witness ==
    /\ Returned
    /\ GivenOrdering = Str(<<"-", "category", "_", "name", ",", "zz", ",", "id">>)
    /\ OrderByArgs = << <<"-", "category", "__", "name">>, <<"id">> >>

-----------------------------------------------------------------------------
(* Requests that carry `filter`: a JSON text (a leaf, a group of leaves, a   *)
(* group in a group, or a document of another shape) or a text that is no   *)
(* JSON, next to any of three flat parameters                               *)

Json(doc) == [t |-> "json", doc |-> doc]

Leaf(field, value) == Dict([field |-> Str(field), value |-> value])

Group(operator, conditions) ==
    Dict([operator |-> Str(operator), conditions |-> List(conditions)])

Laptop == <<"L", "a", "p", "t", "o", "p">>

Leaves ==
    { Leaf(<<"name">>, Str(Laptop)), Leaf(<<"name">>, None),
      Leaf(<<"category">>, PyInt(1)), Leaf(<<"zz">>, PyInt(1)) }

Operators == { <<"A", "N", "D">>, <<"o", "r">>, <<"X", "O", "R">> }

Groups == {Group(operator, conditions) :
              operator \in Operators, conditions \in StringsUpTo(Leaves, MaxConditions)}

NestedGroup ==
    Group(<<"O", "R">>,
          << Leaf(<<"category">>, PyInt(2)),
             Group(<<"A", "N", "D">>,
                   << Leaf(<<"category">>, PyInt(1)), Leaf(<<"name">>, None) >>) >>)

\* documents that are no tree of groups and leaves
OtherDocuments ==
    { PyInt(5), Str(<<"x">>), None, List(<<>>), List(<<PyInt(1)>>), Dict(<<>>),
      Dict([operator |-> PyInt(1), conditions |-> List(<<>>)]),
      Dict([operator |-> Str(<<"A", "N", "D">>), conditions |-> PyInt(3)]),
      Dict([operator |-> Str(<<"A", "N", "D">>),
            conditions |-> Dict([a |-> PyInt(1)])]),
      Dict([operator |-> Str(<<"A", "N", "D">>),
            conditions |-> List(<<PyInt(1)>>)]),
      Dict([field |-> List(<<>>), value |-> PyInt(1)]),
      Dict([field |-> Str(<<"name">>), value |-> Str(Laptop), lookup |-> PyInt(7)]),
      Dict([field |-> Str(<<"name">>), value |-> Str(Laptop),
            lookup |-> Str(<<"gt">>)]) }

FilterValues ==
    {Json(doc) : doc \in Leaves \cup Groups \cup {NestedGroup} \cup OtherDocuments}
    \cup {Str(<<"x">>), Str(<<"%", "3", "5">>), Str(<<"{">>)}

FlatParams ==
    << Param(<<"name">>, Str(Laptop)),
       Param(SEARCH_PARAM, Str(<<"p", "h", "o", "n", "e">>)),
       Param(<<"created_at", "_min">>,
             Str(<<"2", "0", "2", "4", "-", "0", "1", "-", "0", "1", " ",
                   "0", "0", ":", "0", "0">>)) >>

\* the flat parameters at the places of `chosen`, in their order
FlatRequest(chosen) ==
    SelectSeq(FlatParams, LAMBDA param : \E i \in chosen : FlatParams[i] = param)

AdvancedRequests ==
    {<<Param(ADVANCED_FILTER_PARAM, value)>> \o FlatRequest(chosen) :
        value \in FilterValues, chosen \in SUBSET DOMAIN FlatParams}

InitAdvanced == \E data \in AdvancedRequests : Constructed("Product", data)

SpecAdvanced == InitAdvanced /\ [][Next]_vars

\* the request with nothing but its `filter` parameter
OnlyFilter(data) == SelectSeq(data, LAMBDA param : param.k = ADVANCED_FILTER_PARAM)

\* what the `filter` parameter of the request resolves to
AdvancedQ == parse_advanced_filter(field_registry, request_data)

\* C1: when `filter` decodes to a predicate, the predicate handed to
\* filter() is the one the request gives without its flat, range and
\* search parameters.
C1_FilterAlone ==
    (/\ Returned
     /\ Truthy(AdvancedQ)
     /\ Truthy(parse_advanced_filter(field_registry, OnlyFilter(request_data))))
    => FilterArgs = BuildQuery(field_registry, OnlyFilter(request_data))

\* C2: when `filter` is given, non-empty, and resolves to nothing, the
\* query handed to filter() is the empty one: no flat, range or search
\* predicate is added.
C2_NeverFlat ==
    (/\ Returned
     /\ Truthy(get_field_values(request_data, ADVANCED_FILTER_PARAM))
     /\ ~Truthy(AdvancedQ))
    => FilterArgs = QEmpty

\* C7: no call of apply() or qs ends in an exception, whatever the request.
C7_NoExceptionEscapes == outcome.raised = ""

\* C8: once a call has computed a result, a later call of apply() or qs
\* leaves that result as it is and issues no filter() or order_by().
C8_Idempotent ==
    [][~IsNone(filtered_queryset)
          => /\ filtered_queryset' = filtered_queryset
             /\ collaborator' = collaborator]_vars

\* a second call has returned after the first issued filter() and order_by()
C8_Witness ==
    /\ calls >= 2
    /\ Returned
    /\ ~IsNone(filtered_queryset)
    /\ Len(collaborator) = 2
    /\ collaborator[1].op = "filter" /\ collaborator[2].op = "order_by"

-----------------------------------------------------------------------------
(* Requests that carry <field>_min and <field>_max for one field of Product *)
(* whose entry has range_filter set                                         *)

Text(word) == Str(word)

RangeTexts ==
    [price |-> { Text(<<"3", "0", "0">>), Text(<<"1", "0", "0", "0">>),
                 Text(<<"5", "0">>), Text(<<"7", "9", "9", ".", "9", "9">>) },
     id |-> { Text(<<"2">>), Text(<<"3">>) },
     created_at |->
         { Text(<<"2", "0", "2", "4", "-", "0", "1", "-", "0", "1", " ",
                  "0", "0", ":", "0", "0">>),
           Text(<<"2", "0", "2", "4", "-", "0", "2", "-", "2", "0", " ",
                  "1", "2", ":", "3", "0", ":", "0", "0">>),
           Text(<<"2", "0", "2", "4", "-", "0", "3", "-", "0", "1", "T",
                  "0", "0", ":", "0", "0", ":", "0", "0">>) }]

RangeFields == DOMAIN RangeTexts

\* the request with the two ends given; None for an end that is left out
RangeRequest(field, min_text, max_text) ==
    (IF IsNone(min_text) THEN <<>> ELSE <<Param(<<field, "_min">>, min_text)>>)
    \o (IF IsNone(max_text) THEN <<>> ELSE <<Param(<<field, "_max">>, max_text)>>)

RangeRequests ==
    UNION {{RangeRequest(field, min_text, max_text) :
               min_text \in RangeTexts[field] \cup {None},
               max_text \in RangeTexts[field] \cup {None}} : field \in RangeFields}

InitRange == \E data \in RangeRequests : Constructed("Product", data)

SpecRange == InitRange /\ [][Next]_vars

\* the field a range request is about
RangedField == request_data[1].k[1]

\* the value an end of the range stands for, by the type of the field
RangeValue(field_type, text) ==
    CASE field_type = "decimal" -> Float(FloatOf(text.s))
      [] field_type = "integer" -> PyInt(IntOf(text.s))
      [] field_type = "datetime" -> parse_datetime(text)
      [] field_type = "date" -> parse_date(text)

\* min <= v <= max for the ends the request gives
WithinRange(v, field_type, data) ==
    /\ \A i \in DOMAIN data :
          EndsWith(data[i].k, <<"_min">>)
              => ~Less(Scale(v), Scale(RangeValue(field_type, data[i].v)))
    /\ \A i \in DOMAIN data :
          EndsWith(data[i].k, <<"_max">>)
              => ~Less(Scale(RangeValue(field_type, data[i].v)), Scale(v))

\* C3: for a filterable field with range_filter set, whatever its type,
\* <field>_min and <field>_max restrict the result to exactly the rows whose
\* value v has min <= v <= max.
C3_RangeRestricts ==
    (/\ Returned
     /\ request_data # <<>>
     /\ InRegistry(field_registry, <<RangedField>>)
     /\ Entry(field_registry, <<RangedField>>).range_filter
     /\ Entry(field_registry, <<RangedField>>).filterable)
    => filtered_queryset.rows =
           {r \in base_queryset.rows :
               WithinRange(RowValue(Table(model)[r], <<RangedField>>),
                           Entry(field_registry, <<RangedField>>).type,
                           request_data)}

-----------------------------------------------------------------------------
(* Requests that carry `search` alone: any term over a few characters, for  *)
(* a filter built without config or with search_fields naming price only    *)

TermChars == {"o", "p", "T", "z", " "}

SearchModels == {"Product", "Ticket"}

SearchRequests ==
    {<<Param(SEARCH_PARAM, Str(term))>> : term \in StringsUpTo(TermChars, MaxTermLen)}

SearchConfigs ==
    { NoConfig, [filter_fields |-> <<>>, search_fields |-> << <<"price">> >>] }

InitSearch ==
    \E m \in SearchModels, cfg \in SearchConfigs, data \in SearchRequests :
        ConstructedWith(m, cfg, data)

SpecSearch == InitSearch /\ [][Next]_vars

\* the term searched for: the value of `search` without the blanks around it
SearchTerm == Strip(request_data[1].v.s)

\* the (value, label) pairs of a choice field of the model
Labels(m, field_name) ==
    With(get_fields(m)[CHOOSE i \in DOMAIN get_fields(m) :
                           get_fields(m)[i].name = field_name],
         LAMBDA field : IF ~IsNone(field.choices_cls)
                        THEN field.choices_cls.as_tuples.items
                        ELSE field.choices)

\* the row has the term in the searchable field of this registry entry
FieldMatches(m, field_info, row, term) ==
    /\ field_info.searchable
    /\ \/ /\ field_info.type = "text"
          /\ RowValue(row, field_info.field_path).t = "str"
          /\ Contains(Lower(RowValue(row, field_info.field_path).s), Lower(term))
       \/ /\ field_info.type = "enum"
          /\ \E pair \in Range(Labels(m, field_info.name)) :
                /\ pair[1] = RowValue(row, field_info.field_path)
                /\ Contains(Lower(pair[2]), Lower(term))

\* C4: with `search` alone and a term that is not blank, the result is
\* exactly the rows that have the term in at least one searchable field
\* (a text field holding it, an enum field whose label holds it), also when
\* no searchable field adds a test.
C4_SearchSelectsMatches ==
    (Returned /\ SearchTerm # <<>>)
    => filtered_queryset.rows =
           {r \in base_queryset.rows :
               \E i \in DOMAIN field_registry :
                   FieldMatches(model, field_registry[i], Table(model)[r], SearchTerm)}

-----------------------------------------------------------------------------
(* Requests whose `filter` is one leaf: a field, a value, and a lookup of   *)
(* any kind or none                                                         *)

LookupFields ==
    { <<"id">>, <<"name">>, <<"price">>, <<"is_active">>, <<"category">>, <<"zz">> }

LookupValues == { Str(Laptop), Str(<<"1", ",", "2">>), PyInt(1), Bool(TRUE), Str(<<>>) }

\* None stands for a leaf without "lookup"
LookupsGiven ==
    { None, Str(<<"exact">>), Str(<<"gt">>), Str(<<"icontains">>), Str(<<"in">>),
      Str(<<"range">>), Str(<<"zz">>), Str(<<>>), PyInt(7) }

LookupLeaf(field, value, lookup) ==
    IF IsNone(lookup) THEN Leaf(field, value)
    ELSE Dict([field |-> Str(field), value |-> value, lookup |-> lookup])

\* the leaves above, and leaves that give the integer field id the number
\* 1e999, which json.loads reads as the infinite float
LookupRequests ==
    {<<Param(ADVANCED_FILTER_PARAM, Json(LookupLeaf(field, value, lookup)))>> :
        field \in LookupFields, value \in LookupValues, lookup \in LookupsGiven}
    \cup {<<Param(ADVANCED_FILTER_PARAM, Json(LookupLeaf(<<"id">>, Infinity, lookup)))>> :
            lookup \in LookupsGiven}

InitLookup == \E data \in LookupRequests : Constructed("Product", data)

SpecLookup == InitLookup /\ [][Next]_vars

\* the leaf of the request
TheLeaf == request_data[1].v.doc.m

\* the lookup the leaf supplies when the field permits it, the field's
\* default otherwise
ExpectedLookup(field_info, leaf) ==
    IF /\ "lookup" \in DOMAIN leaf
       /\ \E i \in DOMAIN field_info.lookups : Str(field_info.lookups[i]) = leaf.lookup
    THEN leaf.lookup.s
    ELSE field_info.default_lookup

\* C9: for a registered filterable field and a value that is not empty,
\* the predicate is on the lookup supplied when the field permits it and on
\* the field's default_lookup otherwise; the call does not raise.
C9_LookupFallback ==
    (/\ outcome.op # "init"
     /\ InRegistry(field_registry, TheLeaf.field.s)
     /\ Entry(field_registry, TheLeaf.field.s).filterable
     /\ TheLeaf.value # Str(<<>>))
    => /\ outcome.raised = ""
       /\ FilterArgs.op = "leaf"
       /\ FilterArgs.key =
              Entry(field_registry, TheLeaf.field.s).field_path \o LOOKUP_SEP
              \o ExpectedLookup(Entry(field_registry, TheLeaf.field.s), TheLeaf)

-----------------------------------------------------------------------------
(* Requests that give the boolean field is_active a text (as a parameter or *)
(* in a leaf) or a boolean (in a leaf)                                      *)

BoolChars == {"t", "T", "y", "e", "s", "1", " "}

BoolTexts ==
    (StringsUpTo(BoolChars, MaxBoolLen) \ {<<>>})
    \cup { <<"t", "r", "u", "e">>, <<"T", "r", "u", "e">>, <<"T", "R", "U", "E">>,
           <<"f", "a", "l", "s", "e">>, <<"0">>, <<"n", "o">>, <<"o", "n">> }

BooleanRequests ==
    {<<Param(<<"is_active">>, Str(text))>> : text \in BoolTexts}
    \cup {<<Param(ADVANCED_FILTER_PARAM, Json(Leaf(<<"is_active">>, Str(text))))>> :
            text \in BoolTexts}
    \cup {<<Param(ADVANCED_FILTER_PARAM, Json(Leaf(<<"is_active">>, Bool(b))))>> :
            b \in BOOLEAN}

InitBoolean == \E data \in BooleanRequests : Constructed("Product", data)

SpecBoolean == InitBoolean /\ [][Next]_vars

\* the value the request gives is_active
GivenBoolean ==
    IF request_data[1].k = ADVANCED_FILTER_PARAM THEN request_data[1].v.doc.m.value
    ELSE request_data[1].v

\* the texts that stand for true, in lower case
TrueTexts ==
    { <<"t", "r", "u", "e">>, <<"t">>, <<"y", "e", "s">>, <<"y">>, <<"1">> }

\* C10: a text given for a boolean field becomes true exactly when its
\* lower-cased form is one of true, t, yes, y, 1, and false otherwise; a
\* boolean stays what it is.  The predicate is is_active exact that value.
C10_BooleanCoercion ==
    outcome.op # "init"
    => /\ outcome.raised = ""
       /\ FilterArgs =
              QLeaf(<<"is_active", "__", "exact">>,
                    IF GivenBoolean.t = "bool" THEN GivenBoolean
                    ELSE Bool(Lower(GivenBoolean.s) \in TrueTexts))

\* is_active=false has given the predicate is_active exact False, and only
\* the inactive row is selected
C10_Witness ==
    /\ Returned
    /\ request_data = <<Param(<<"is_active">>, Str(<<"f", "a", "l", "s", "e">>))>>
    /\ FilterArgs = QLeaf(<<"is_active", "__", "exact">>, Bool(FALSE))
    /\ filtered_queryset.rows = {4}

-----------------------------------------------------------------------------
(* Requests that give the text field name no, one or several values, with   *)
(* a parameter that names no field in between                               *)

ValueParams ==
    { Param(<<"name">>, Str(<<"a">>)), Param(<<"name">>, Str(<<"b">>)),
      Param(<<"name">>, Str(<<>>)), Param(<<"zz">>, Str(<<"a">>)) }

ValueRequests == StringsUpTo(ValueParams, MaxParams)

InitValues == \E data \in ValueRequests : Constructed("Product", data)

SpecValues == InitValues /\ [][Next]_vars

\* the values the request gives `name`, in request order
NameValues ==
    With(SelectSeq(request_data, LAMBDA param : param.k = <<"name">>),
         LAMBDA given : [i \in 1..Len(given) |-> given[i].v])

\* the predicate on name for one resolved value that is not nothing
NamePredicate(value) ==
    IF value = Str(<<>>) THEN QLeaf(<<"name", "__", "isnull">>, Bool(TRUE))
    ELSE QLeaf(<<"name", "__", "icontains">>, value)

\* C11: a parameter given twice or more resolves to the list of its values
\* in request order, a parameter given once to that one text, an absent
\* parameter to nothing, which adds no predicate.
C11_ValueResolution ==
    Returned
    => FilterArgs = IF Len(NameValues) = 0 THEN QEmpty
                    ELSE IF Len(NameValues) = 1 THEN NamePredicate(NameValues[1])
                    ELSE NamePredicate(List(NameValues))

\* name=b&zz=a&name=a has resolved to the list [b, a]
C11_Witness ==
    /\ Returned
    /\ request_data = << Param(<<"name">>, Str(<<"b">>)), Param(<<"zz">>, Str(<<"a">>)),
                         Param(<<"name">>, Str(<<"a">>)) >>
    /\ FilterArgs = QLeaf(<<"name", "__", "icontains">>,
                          List(<< Str(<<"b">>), Str(<<"a">>) >>))

-----------------------------------------------------------------------------
(* Filters built with allow-lists, for requests that reach fields as flat   *)
(* parameters, as range parameters, as leaves of `filter` and by `search`   *)

AllowLists ==
    { <<>>, << <<"name">> >>, << <<"price">> >>,
      << <<"created_at">>, <<"category", "_", "name">> >> }

AllowConfigs ==
    {[filter_fields |-> filter_fields, search_fields |-> search_fields] :
        filter_fields \in AllowLists, search_fields \in AllowLists}

Midnight ==
    <<"2", "0", "2", "4", "-", "0", "1", "-", "0", "1", " ", "0", "0", ":", "0", "0">>

AllowParams ==
    { Param(<<"name">>, Str(<<"a">>)),
      Param(<<"price">>, Str(<<"1">>)),
      Param(<<"category", "_", "name">>, Str(<<"a">>)),
      Param(<<"created_at", "_min">>, Str(Midnight)),
      Param(<<"created_at", "_max">>, Str(Midnight)),
      Param(ADVANCED_FILTER_PARAM, Json(Leaf(<<"name">>, Str(<<"a">>)))),
      Param(ADVANCED_FILTER_PARAM,
            Json(Group(<<"a", "n", "d">>,
                       << Leaf(<<"price">>, PyInt(1)), Leaf(<<"name">>, None),
                          Leaf(<<"created_at">>, Str(Midnight)) >>))),
      Param(SEARCH_PARAM, Str(<<"a">>)) }

AllowRequests == StringsUpTo(AllowParams, MaxAllowParams)

InitAllow ==
    \E cfg \in AllowConfigs, data \in AllowRequests : ConstructedWith("Product", cfg, data)

SpecAllow == InitAllow /\ [][Next]_vars

\* the keys of the leaves of a predicate
RECURSIVE LeafKeys(_)
LeafKeys(q) ==
    CASE q.op = "empty" -> {}
      [] q.op = "leaf" -> {q.key}
      [] OTHER -> LeafKeys(q.l) \cup LeafKeys(q.r)

\* the logical names of the fields the predicate handed to filter() tests:
\* a key is a field_path, the separator, a lookup
FieldsTested ==
    {field_registry[i].name :
        i \in {j \in DOMAIN field_registry :
                  \E key \in LeafKeys(FilterArgs) :
                      SubSeq(key, 1, Len(key) - 2) = field_registry[j].field_path}}

\* C12: with a filter_fields allow-list that is not empty, a request
\* without `search` gets no predicate on a field the list does not name,
\* be it given as a flat parameter, as _min/_max or as a leaf of `filter`;
\* with a search_fields allow-list that is not empty, a request of `search`
\* alone gets no predicate on a field that list does not name.
C12_AllowLists ==
    Returned
    => /\ (Len(config.filter_fields) > 0 /\ ~HasParam(request_data, SEARCH_PARAM))
            => FieldsTested \subseteq Range(config.filter_fields)
       /\ (Len(config.search_fields) > 0
              /\ \A i \in DOMAIN request_data : request_data[i].k = SEARCH_PARAM)
            => FieldsTested \subseteq Range(config.search_fields)

\* only price is listed: of name=a&price=1 the predicate on price alone is left
C12_Witness ==
    /\ Returned
    /\ config.filter_fields = << <<"price">> >>
    /\ request_data = << Param(<<"name">>, Str(<<"a">>)), Param(<<"price">>, Str(<<"1">>)) >>
    /\ FilterArgs = QLeaf(<<"price", "__", "exact">>, Float(100))

-----------------------------------------------------------------------------
(* ModelFilter.get_filterable_fields *)

\* str(n) for an int that is not negative
RECURSIVE StrOfNat(_)
StrOfNat(n) ==
    (IF n >= 10 THEN StrOfNat(n \div 10) ELSE <<>>)
    \o <<CHOOSE c \in Digits : DigitVal(c) = n % 10>>

\* str(v) for the value of a choice (a label is a text already)
StrOf(v) ==
    IF v.t = "str" THEN v.s
    ELSE IF v.n < 0 THEN <<"-">> \o StrOfNat(-v.n)
    ELSE StrOfNat(v.n)

\* the list of {'value': str(v), 'label': str(l)}
ChoiceList(pairs) ==
    [i \in 1..Len(pairs) |-> [value |-> StrOf(pairs[i][1]), label |-> pairs[i][2]]]

\* the choices of an enum class, empty when it has none to give
EnumChoices(enum_class) ==
    IF ~IsNone(enum_class.as_tuples) THEN ChoiceList(enum_class.as_tuples.items)
    ELSE IF ~IsNone(enum_class.choices) THEN ChoiceList(enum_class.choices.items)
    ELSE <<>>

\* the metadata dict of one registry entry
FieldMeta(field_name, field_info) ==
    [name |-> field_name,
     type |-> field_info.type,
     filterable |-> TRUE,
     searchable |-> field_info.searchable,
     orderable |-> TRUE,
     lookups |-> field_info.lookups,
     default_lookup |-> field_info.default_lookup]
    @@ (IF field_info.range_filter THEN [range_filter |-> TRUE] ELSE <<>>)
    @@ (IF /\ field_info.type = "enum"
           /\ Truthy(field_info.enum_class)
           /\ Len(EnumChoices(field_info.enum_class)) > 0
        THEN [choices |-> EnumChoices(field_info.enum_class)]
        ELSE <<>>)

\* ModelFilter.get_filterable_fields: the dict, as the sequence of its values
get_filterable_fields(registry) ==
    With(SelectSeq(registry, LAMBDA field_info : ~StartsWith(field_info.name, <<"_">>)),
         LAMBDA listed : [i \in 1..Len(listed) |-> FieldMeta(listed[i].name, listed[i])])

\* a call of get_filterable_fields()
GetFilterableFields ==
    /\ calls < MaxCalls
    /\ outcome' = [op |-> "get_filterable_fields", raised |-> "",
                   fields |-> get_filterable_fields(field_registry)]
    /\ calls' = calls + 1
    /\ UNCHANGED <<model, config, field_registry, request_data, base_queryset,
                   filtered_queryset, collaborator, thread_locals, handling,
                   given_queryset, registered>>

NextFields == Apply \/ ReadQs \/ GetFilterableFields

\* filters of every model, with and without allow-lists, on a queryset
\* that may carry the annotations _rank and label
FieldsAnnotations == { <<>>, << <<"_", "rank">>, <<"label">> >> }

FieldsRequests == { <<>>, <<Param(<<"id">>, Str(<<"1">>))>> }

InitFields ==
    \E m \in ModelNames, cfg \in AllowConfigs, annotations \in FieldsAnnotations,
       data \in FieldsRequests :
        ConstructedOn(m, cfg, annotations, data)

SpecFields == InitFields /\ [][NextFields]_vars

\* C13: get_filterable_fields() reports every registry entry whose name
\* does not start with `_`, and no other, with the entry's own filterable
\* and searchable flags, lookups and default_lookup.
C13_ReportsRegistryFlags ==
    outcome.op = "get_filterable_fields"
    => /\ \A i \in DOMAIN outcome.fields :
              /\ InRegistry(field_registry, outcome.fields[i].name)
              /\ ~StartsWith(outcome.fields[i].name, <<"_">>)
       /\ \A j \in DOMAIN field_registry :
              ~StartsWith(field_registry[j].name, <<"_">>)
              => \E i \in DOMAIN outcome.fields :
                    /\ outcome.fields[i].name = field_registry[j].name
                    /\ outcome.fields[i].filterable = field_registry[j].filterable
                    /\ outcome.fields[i].searchable = field_registry[j].searchable
                    /\ outcome.fields[i].lookups = field_registry[j].lookups
                    /\ outcome.fields[i].default_lookup = field_registry[j].default_lookup

-----------------------------------------------------------------------------
(* RequestMiddleware and DynamicFilterQuerySet.apply_filtering.  __call__   *)
(* runs the wrapped handler between storing the request and removing it:    *)
(* it is entered, and left when the handler returns or raises.  The handler *)
(* and any other code of the thread may call get_current_request() and      *)
(* apply_filtering().                                                       *)

HttpRequest(data) == [t |-> "request", GET |-> data]

\* the data apply_filtering may be given: None, or a QueryDict
QueryDict(data) == [t |-> "querydict", items |-> data]

\* getattr(store, 'request', None) on the running thread
GetRequestAttr(store, thread) == store[thread]

\* middleware.get_current_request
middleware_get_current_request(thread) == GetRequestAttr(thread_locals, thread)

\* managers.get_current_request: the store is a local() made by this call
managers_get_current_request(thread) == GetRequestAttr(NoRequests, thread)

\* request_data or (get_current_request() and get_current_request().GET or {})
FilteringData(given, thread) ==
    IF ~IsNone(given) /\ Len(given.items) > 0 THEN given.items
    ELSE IF IsNone(managers_get_current_request(thread)) THEN <<>>
    ELSE managers_get_current_request(thread).GET

\* ModelFilter(model, data, queryset, config).qs for a filter just built
FreshQs(m, queryset, registry, data) ==
    With(BuildQuery(registry, data), LAMBDA query :
        IF IsRaise(query)
        THEN [fq |-> None, issued |-> <<>>, raised |-> query.exc]
        ELSE Queried(m, queryset, query, apply_ordering(registry, data))
             @@ [raised |-> ""])

\* RequestMiddleware.__call__ up to the call of get_response
MiddlewareCall(thread, request) ==
    /\ IsNone(handling[thread])
    /\ thread_locals' = [thread_locals EXCEPT ![thread] = request]
    /\ handling' = [handling EXCEPT ![thread] = request]
    /\ UNCHANGED <<model, config, field_registry, request_data, base_queryset,
                   filtered_queryset, collaborator, outcome, calls,
                   given_queryset, registered>>

\* get_response returns: __call__ removes the request and returns
GetResponseReturns(thread) ==
    /\ ~IsNone(handling[thread])
    /\ thread_locals' = [thread_locals EXCEPT ![thread] = None]
    /\ handling' = [handling EXCEPT ![thread] = None]
    /\ outcome' = [op |-> "__call__", raised |-> "", thread |-> thread]
    /\ UNCHANGED <<model, config, field_registry, request_data, base_queryset,
                   filtered_queryset, collaborator, calls, given_queryset, registered>>

\* get_response raises: the exception leaves __call__ at that line
GetResponseRaises(thread) ==
    /\ ~IsNone(handling[thread])
    /\ handling' = [handling EXCEPT ![thread] = None]
    /\ outcome' = [op |-> "__call__", raised |-> "Exception", thread |-> thread]
    /\ UNCHANGED <<model, config, field_registry, request_data, base_queryset,
                   filtered_queryset, collaborator, calls, thread_locals,
                   given_queryset, registered>>

\* a call of middleware.get_current_request() on a thread
GetCurrentRequest(thread) ==
    /\ outcome' = [op |-> "get_current_request", raised |-> "", thread |-> thread,
                   during |-> handling[thread],
                   request |-> middleware_get_current_request(thread)]
    /\ UNCHANGED <<model, config, field_registry, request_data, base_queryset,
                   filtered_queryset, collaborator, calls, thread_locals, handling,
                   given_queryset, registered>>

\* Model.objects.apply_filtering(request_data=given) on a thread
ApplyFiltering(thread, given) ==
    /\ \E data \in {FilteringData(given, thread)} :
       \E registry \in {BuildRegistry(model, NoConfig, base_queryset.annotations)} :
       \E r \in {FreshQs(model, base_queryset, registry, data)} :
            /\ request_data' = data
            /\ config' = NoConfig
            /\ field_registry' = registry
            /\ given_queryset' = base_queryset
            /\ registered' = Len(RegistrationCalls(model, base_queryset.annotations))
            /\ filtered_queryset' = r.fq
            /\ collaborator' = r.issued
            /\ outcome' = [op |-> "apply_filtering", raised |-> r.raised,
                           thread |-> thread, given |-> given,
                           during |-> handling[thread]]
    /\ UNCHANGED <<model, base_queryset, calls, thread_locals, handling>>

\* the requests that arrive, and the data apply_filtering is given
Requests ==
    { HttpRequest(<<Param(<<"name">>, Str(Laptop))>>),
      HttpRequest(<<Param(<<"is_active">>, Str(<<"f", "a", "l", "s", "e">>))>>),
      HttpRequest(<<>>) }

GivenData ==
    { None, QueryDict(<<>>), QueryDict(<<Param(<<"price">>, Str(<<"4", "9", ".", "9", "9">>))>>) }

NextMiddleware ==
    \/ \E thread \in Threads, request \in Requests : MiddlewareCall(thread, request)
    \/ \E thread \in Threads : GetResponseReturns(thread)
    \/ \E thread \in Threads : GetResponseRaises(thread)
    \/ \E thread \in Threads : GetCurrentRequest(thread)
    \/ \E thread \in Threads, given \in GivenData : ApplyFiltering(thread, given)

\* no request has arrived and apply_filtering has built no filter yet
InitMiddleware ==
    /\ model = "Product"
    /\ config = NoConfig
    /\ field_registry = <<>>
    /\ request_data = <<>>
    /\ base_queryset = [t |-> "queryset", rows |-> AllRows("Product"),
                        annotations |-> <<>>]
    /\ filtered_queryset = None
    /\ collaborator = <<>>
    /\ outcome = [op |-> "init", raised |-> ""]
    /\ calls = 0
    /\ thread_locals = NoRequests
    /\ handling = NoRequests
    /\ given_queryset = None
    /\ registered = 0

SpecMiddleware == InitMiddleware /\ [][NextMiddleware]_vars

\* C14: once __call__ has finished on a thread, by return or by exception,
\* the thread's store holds no request; get_current_request() gives the
\* request the thread is handling and nothing when it handles none.
C14_StoreCleared ==
    /\ \A thread \in Threads : IsNone(handling[thread]) => IsNone(thread_locals[thread])
    /\ outcome.op = "get_current_request" => outcome.request = outcome.during

\* C15: apply_filtering() given no request_data builds the filter from the
\* GET parameters of the request its thread is handling, and from an empty
\* mapping only when the thread handles none.
C15_DefaultsToCurrentRequest ==
    (/\ outcome.op = "apply_filtering"
     /\ (IsNone(outcome.given) \/ Len(outcome.given.items) = 0))
    => request_data = IF IsNone(outcome.during) THEN <<>> ELSE outcome.during.GET

-----------------------------------------------------------------------------
(* Requests whose `filter` is a group: any operator, conditions that are    *)
(* leaves (on registered fields, on no field, with a null value) or groups  *)

GroupLeaves ==
    { LookupLeaf(<<"category">>, PyInt(1), Str(<<"exact">>)),
      LookupLeaf(<<"price">>, PyInt(1000), Str(<<"gt">>)),
      LookupLeaf(<<"is_active">>, Bool(FALSE), Str(<<"exact">>)),
      Leaf(<<"zz">>, PyInt(1)),
      Leaf(<<"name">>, None) }

InnerGroups ==
    { Group(<<"O", "R">>,
            << LookupLeaf(<<"price">>, PyInt(1000), Str(<<"gt">>)),
               LookupLeaf(<<"is_active">>, Bool(FALSE), Str(<<"exact">>)) >>),
      Group(<<"o", "r">>,
            << Leaf(<<"zz">>, PyInt(1)),
               LookupLeaf(<<"price">>, PyInt(1000), Str(<<"gt">>)) >>),
      Group(<<"x", "o", "r">>,
            << LookupLeaf(<<"is_active">>, Bool(FALSE), Str(<<"exact">>)),
               Leaf(<<"name">>, None) >>),
      Group(<<"A", "N", "D">>, << Leaf(<<"zz">>, PyInt(1)) >>) }

GroupOperators ==
    { <<"A", "N", "D">>, <<"a", "n", "d">>, <<"O", "R">>, <<"O", "r">>, <<"x", "o", "r">> }

GroupRequests ==
    {<<Param(ADVANCED_FILTER_PARAM, Json(Group(operator, conditions)))>> :
        operator \in GroupOperators,
        conditions \in StringsUpTo(GroupLeaves \cup InnerGroups, MaxConditions)}

InitGroups == \E data \in GroupRequests : Constructed("Product", data)

SpecGroups == InitGroups /\ [][Next]_vars

\* the group of the request, and its conditions
TheGroup == request_data[1].v.doc
TheConditions == TheGroup.m.conditions.items

IsGroupNode(node) == "conditions" \in DOMAIN node.m

\* what a leaf resolves to: nothing for a field that is not registered,
\* else what _build_field_filter gives
LeafResolved(node) ==
    IF ~InRegistry(field_registry, node.m.field.s) THEN None
    ELSE build_field_filter(field_registry, request_data, node.m.field.s, node.m.value,
                            IF "lookup" \in DOMAIN node.m THEN node.m.lookup ELSE None)

\* the rule of the claim: nothing when the first condition is nothing, else
\* the fold from the left over the later conditions that are not nothing
RECURSIVE Resolved(_)
RECURSIVE FoldFrom(_, _, _)
FoldFrom(operator, folded, later) ==
    IF later = <<>> THEN folded
    ELSE With(Resolved(Head(later)), LAMBDA next :
             FoldFrom(operator,
                      IF IsNone(next) THEN folded
                      ELSE IF Upper(operator) = <<"O", "R">> THEN QOr(folded, next)
                      ELSE QAnd(folded, next),
                      Tail(later)))

Resolved(node) ==
    IF ~IsGroupNode(node) THEN LeafResolved(node)
    ELSE IF Len(node.m.conditions.items) = 0 THEN None
    ELSE With(Resolved(node.m.conditions.items[1]), LAMBDA first :
             IF IsNone(first) THEN None
             ELSE FoldFrom(node.m.operator.s, first, Tail(node.m.conditions.items)))

\* the predicate filter() gets for a request of `filter` alone: the empty
\* one when `filter` resolves to nothing
Handed(q) == IF IsNone(q) THEN QEmpty ELSE q

\* C16: a group with conditions resolves to nothing when its first
\* condition does, and else to the fold from the left of the first
\* condition with the later ones that are not nothing: OR for the operator
\* that upper-cased is OR, AND for AND and any other; groups in groups
\* resolve by the same rule.
C16_GroupFold ==
    (Returned /\ Len(TheConditions) > 0)
    => FilterArgs = Handed(Resolved(TheGroup))

\* AND[category = 1, OR[price > 1000, is_active = False]] selects the two
\* products of the first category that satisfy the OR branch
C16_Witness ==
    /\ Returned
    /\ FilterArgs =
          QAnd(QLeaf(<<"category", "__", "exact">>, PyInt(1)),
               QOr(QLeaf(<<"price", "__", "gt">>, Float(100000)),
                   QLeaf(<<"is_active", "__", "exact">>, Bool(FALSE))))
    /\ filtered_queryset.rows = {1, 4}

\* the group without its condition at place i
WithoutCondition(group, i) ==
    Dict([group.m EXCEPT !.conditions =
              List(SubSeq(group.m.conditions.items, 1, i - 1)
                   \o SubSeq(group.m.conditions.items, i + 1,
                             Len(group.m.conditions.items)))])

\* C17: a leaf on a field that is not registered counts for nothing at any
\* place of its group, the first included: the predicate is that of the
\* group without the leaf.
C17_UnregisteredLeafNoOp ==
    Returned
    => \A i \in DOMAIN TheConditions :
          (/\ ~IsGroupNode(TheConditions[i])
           /\ ~InRegistry(field_registry, TheConditions[i].m.field.s))
          => FilterArgs = Handed(build_filter_object(field_registry, request_data,
                                                    WithoutCondition(TheGroup, i)))

\* the places of the group that hold a leaf on a field that is not registered
UnregisteredPlaces ==
    {i \in DOMAIN TheConditions :
        /\ ~IsGroupNode(TheConditions[i])
        /\ ~InRegistry(field_registry, TheConditions[i].m.field.s)}

\* C17, as the code has it: a leaf on a field that is not registered counts
\* for nothing at any place of its group after the first, where the
\* predicate is that of the group without the leaf; as the first condition
\* it makes the whole group resolve to nothing.
C17_UnregisteredLeafSkipped ==
    Returned
    => \A i \in UnregisteredPlaces :
          FilterArgs = IF i = 1 THEN QEmpty
                       ELSE Handed(build_filter_object(field_registry, request_data,
                                                       WithoutCondition(TheGroup, i)))

\* a group that keeps its predicate with such a leaf after its first condition
C17_Witness ==
    /\ Returned
    /\ \E i \in UnregisteredPlaces : i > 1
    /\ FilterArgs = QLeaf(<<"category", "__", "exact">>, PyInt(1))

-----------------------------------------------------------------------------
(* Requests of flat parameters: search, the two ends of a range (one that   *)
(* does not parse), fields given once or twice, a name that is no field, a  *)
(* name with a range suffix, and a `filter` that resolves to nothing        *)

FlatPathParams ==
    { Param(SEARCH_PARAM, Str(<<"a">>)),
      Param(<<"created_at", "_min">>, Str(Midnight)),
      Param(<<"created_at", "_max">>, Str(<<"x">>)),
      Param(<<"name">>, Str(<<"a">>)),
      Param(<<"name">>, Str(<<"b">>)),
      Param(<<"price">>, Str(<<"1">>)),
      Param(<<"zz">>, Str(<<"1">>)),
      Param(<<"price", "_min">>, Str(<<"1">>)),
      Param(ADVANCED_FILTER_PARAM, Json(Leaf(<<"zz">>, PyInt(1)))) }

FlatPathRequests == StringsUpTo(FlatPathParams, MaxFlatParams)

FlatPathConfigs ==
    { NoConfig, [filter_fields |-> << <<"price">> >>, search_fields |-> <<>>] }

InitFlat ==
    \E cfg \in FlatPathConfigs, data \in FlatPathRequests :
        ConstructedWith("Product", cfg, data)

SpecFlat == InitFlat /\ [][Next]_vars

\* the predicates a predicate is the conjunction of, in order
RECURSIVE Conjuncts(_)
Conjuncts(q) ==
    IF IsNone(q) \/ q.op = "empty" THEN <<>>
    ELSE IF q.op = "AND" THEN Conjuncts(q.l) \o Conjuncts(q.r)
    ELSE <<q>>

RECURSIVE Concat(_)
Concat(seqs) == IF seqs = <<>> THEN <<>> ELSE Head(seqs) \o Concat(Tail(seqs))

\* the range predicate of a registry entry: of a date or datetime field
\* flagged range_filter, nothing for the others
RangePredicate(field_info) ==
    IF ~field_info.range_filter THEN None
    ELSE IF field_info.type = "date"
    THEN build_date_range_filter(field_registry, request_data, field_info.name)
    ELSE IF field_info.type = "datetime"
    THEN build_datetime_range_filter(field_registry, request_data, field_info.name)
    ELSE None

\* the parameters the claim lets contribute a field predicate
Eligible(param) ==
    /\ InRegistry(field_registry, param)
    /\ param \notin {SEARCH_PARAM, ORDERING_PARAM, ADVANCED_FILTER_PARAM}
    /\ ~EndsWith(param, <<"_min">>)
    /\ ~EndsWith(param, <<"_max">>)

EligibleParams == SelectSeq(Keys(request_data), Eligible)

ExpectedConjuncts ==
    Conjuncts(build_search_filter(field_registry, request_data))
    \o Concat([i \in DOMAIN field_registry |->
                  Conjuncts(RangePredicate(field_registry[i]))])
    \o Concat([i \in DOMAIN EligibleParams |->
                  Conjuncts(build_field_filter(field_registry, request_data,
                                               EligibleParams[i], None, None))])

OnFlatPath == ~Truthy(parse_advanced_filter(field_registry, request_data))

-----------------------------------------------------------------------------
(* Requests whose `filter` is a leaf with the value "" or null on a         *)
(* registered filterable field, with any lookup, alone or beside a flat     *)
(* parameter of the same field                                              *)

NullFields == { <<"name">>, <<"price">>, <<"is_active">>, <<"created_at">>, <<"category">> }

NullValues == { None, Str(<<>>) }

NullLookups == { None, Str(<<"exact">>), Str(<<"gt">>), Str(<<"zz">>) }

NullRequests ==
    UNION {{ <<Param(ADVANCED_FILTER_PARAM, Json(LookupLeaf(field, value, lookup)))>>,
             <<Param(ADVANCED_FILTER_PARAM, Json(LookupLeaf(field, value, lookup))),
               Param(field, Str(<<"1">>))>> } :
           field \in NullFields, value \in NullValues, lookup \in NullLookups}

InitNull == \E data \in NullRequests : Constructed("Product", data)

SpecNull == InitNull /\ [][Next]_vars

\* the leaf of the request, and the is-null test on the path of its field
NullLeaf == request_data[1].v.doc

IsNullTest ==
    QLeaf(Entry(field_registry, NullLeaf.m.field.s).field_path \o LOOKUP_SEP \o <<"isnull">>,
          Bool(TRUE))

\* C19: a leaf with the value "" or null on a registered filterable field
\* resolves to the test <field_path> isnull = true, whatever lookup it asks
\* for and without coercion.
C19_NullValueIsNullTest ==
    Returned => FilterArgs = IsNullTest

\* the leaves with the empty string do resolve to the is-null test
C19_EmptyStringIsNullTest ==
    (Returned /\ NullLeaf.m.value = Str(<<>>)) => FilterArgs = IsNullTest

-----------------------------------------------------------------------------
(* Requests that give the ends of the range of a date field (Ticket.due)    *)
(* or of a datetime field (Product.created_at): texts in several of the     *)
(* formats, texts two formats read differently, texts none reads, ""        *)

DateRangeTexts ==
    [due |->
        { Text(<<"2", "0", "2", "4", "-", "0", "1", "-", "1", "5">>),
          Text(<<"1", "5", "-", "0", "1", "-", "2", "0", "2", "4">>),
          Text(<<"0", "1", "/", "0", "2", "/", "2", "0", "2", "4">>),
          Text(<<"1", "3", "/", "0", "2", "/", "2", "0", "2", "4">>),
          Text(<<"2", "0", "2", "4", "/", "1", "2", "/", "3", "1">>),
          Text(<<"2", "0", "2", "4", "-", "0", "2", "-", "3", "0">>),
          Text(<<"x">>),
          Text(<<>>) },
     created_at |->
        { Text(Midnight),
          Text(<<"2", "0", "2", "4", "-", "0", "2", "-", "2", "0", "T",
                 "1", "2", ":", "3", "0", ":", "0", "0">>),
          Text(<<"0", "1", "-", "0", "2", "-", "2", "0", "2", "4", " ",
                 "1", "0", ":", "0", "0", ":", "0", "0">>),
          Text(<<"2", "0", "2", "4", "-", "0", "1", "-", "1", "5">>),
          Text(<<>>) }]

DateRangeModel == [due |-> "Ticket", created_at |-> "Product"]

InitDates ==
    \E field \in DOMAIN DateRangeTexts :
        \E min_text \in DateRangeTexts[field] \cup {None},
           max_text \in DateRangeTexts[field] \cup {None} :
            Constructed(DateRangeModel[field], RangeRequest(field, min_text, max_text))

SpecDates == InitDates /\ [][Next]_vars

\* the field of the model that the requests range over, and its entry
DateRangeField == IF model = "Ticket" THEN "due" ELSE "created_at"
DateRangeEntry == Entry(field_registry, <<DateRangeField>>)

\* the value of a text by the first format of the list that reads it, None
\* when no format does
ByFirstFormat(text, formats) ==
    IF \A i \in DOMAIN formats : IsNone(strptime(text, formats[i])) THEN None
    ELSE strptime(text,
                  formats[CHOOSE i \in DOMAIN formats :
                              /\ ~IsNone(strptime(text, formats[i]))
                              /\ \A j \in 1..(i - 1) : IsNone(strptime(text, formats[j]))])

\* the value an end of the range stands for: None when the parameter is not
\* there or no format reads it
EndValue(suffix) ==
    IF ~HasParam(request_data, DateRangeEntry.field_path \o <<suffix>>) THEN None
    ELSE With(GetItem(request_data, DateRangeEntry.field_path \o <<suffix>>),
              LAMBDA text :
                  IF DateRangeEntry.type = "date"
                  THEN With(ByFirstFormat(text.s, DATE_FORMATS),
                            LAMBDA dt : IF IsNone(dt) THEN None ELSE DateOf(dt))
                  ELSE ByFirstFormat(text.s, DATETIME_FORMATS))

EndTest(lookup, value) ==
    IF IsNone(value) THEN <<>>
    ELSE <<QLeaf(DateRangeEntry.field_path \o LOOKUP_SEP \o <<lookup>>, value)>>

\* C20: for a filterable date or datetime field flagged range_filter the
\* range predicate is the AND of path >= min, when <path>_min is there and
\* a format reads it, and path <= max, when <path>_max is there and a
\* format reads it: an end no format reads is dropped without error, one
\* end alone is enough, no end gives nothing; the value of an end is that
\* of the first format of the list that reads it.
C20_DateRange ==
    Returned
    => /\ DateRangeEntry.filterable /\ DateRangeEntry.range_filter
       /\ outcome.raised = ""
       /\ Conjuncts(FilterArgs)
            = EndTest("gte", EndValue("_min")) \o EndTest("lte", EndValue("_max"))

\* 13/02/2024 is read day first, 01/02/2024 month first
C20_Witness ==
    /\ Returned
    /\ model = "Ticket"
    /\ FilterArgs =
          QAnd(QLeaf(<<"due", "__", "gte">>, [t |-> "date", Y |-> 2024, m |-> 2, d |-> 13]),
               QLeaf(<<"due", "__", "lte">>, [t |-> "date", Y |-> 2024, m |-> 1, d |-> 2]))
    /\ filtered_queryset.rows = {}

-----------------------------------------------------------------------------
(* The registry entries of the annotations of the supplied queryset *)

AnnotationEntry(i) == Entry(field_registry, base_queryset.annotations[i])

\* C21: every annotation of the supplied queryset is registered as a text
\* entry with is_annotated set that, without allow-lists, is searchable and
\* not filterable; it is filterable only when filter_fields names it.
C21_AnnotationDefaults ==
    \A i \in DOMAIN base_queryset.annotations :
        /\ InRegistry(field_registry, base_queryset.annotations[i])
        /\ AnnotationEntry(i).type = "text"
        /\ AnnotationEntry(i).is_annotated
        /\ config = NoConfig
              => AnnotationEntry(i).searchable /\ ~AnnotationEntry(i).filterable
        /\ AnnotationEntry(i).filterable
              => base_queryset.annotations[i] \in Range(config.filter_fields)

\* what does hold of the entries: text, is_annotated, and without
\* allow-lists searchable and filterable
C21_AnnotationRegistered ==
    \A i \in DOMAIN base_queryset.annotations :
        /\ InRegistry(field_registry, base_queryset.annotations[i])
        /\ AnnotationEntry(i).type = "text"
        /\ AnnotationEntry(i).is_annotated
        /\ config = NoConfig
              => AnnotationEntry(i).searchable /\ AnnotationEntry(i).filterable

-----------------------------------------------------------------------------
(* ModelFilter.__init__ one registration call at a time: the registry       *)
(* starts empty and takes the own fields, then for each field the field     *)
(* again and the fields of its related model, then the annotations          *)

RegistryModels == ModelNames \cup {"Review"}

\* annotate() refuses a name that is a field of the model
RegistryAnnotations(m) ==
    IF m = "Category" THEN { <<>>, << <<"label">>, <<"price">> >> }
    ELSE { <<>>, << <<"label">> >> }

RegistryConfigs ==
    { NoConfig, [filter_fields |-> << <<"price">> >>, search_fields |-> <<>>] }

InitRegistry ==
    \E m \in RegistryModels, cfg \in RegistryConfigs :
    \E annotations \in RegistryAnnotations(m) :
        /\ model = m
        /\ config = cfg
        /\ given_queryset = QuerySet({1}, annotations)
        /\ base_queryset = BaseQueryset(m, QuerySet({1}, annotations))
        /\ field_registry = <<>>
        /\ registered = 0
        /\ request_data = <<>>
        /\ filtered_queryset = None
        /\ collaborator = <<>>
        /\ outcome = [op |-> "__init__", raised |-> ""]
        /\ calls = 0
        /\ thread_locals = NoRequests
        /\ handling = NoRequests

\* the calls of this construction, and the one that comes next
TheCalls == RegistrationCalls(model, base_queryset.annotations)
NextCall == TheCalls[registered + 1]

\* the next call of _register_field
RegisterField ==
    /\ registered < Len(TheCalls)
    /\ NextCall.kind = "field"
    /\ field_registry' = Registering(field_registry, config, NextCall)
    /\ registered' = registered + 1
    /\ UNCHANGED <<model, config, request_data, base_queryset, filtered_queryset,
                   collaborator, outcome, calls, thread_locals, handling,
                   given_queryset>>

\* the next call of _register_annotated_field
RegisterAnnotatedField ==
    /\ registered < Len(TheCalls)
    /\ NextCall.kind = "annotation"
    /\ field_registry' = Registering(field_registry, config, NextCall)
    /\ registered' = registered + 1
    /\ UNCHANGED <<model, config, request_data, base_queryset, filtered_queryset,
                   collaborator, outcome, calls, thread_locals, handling,
                   given_queryset>>

NextRegistry == RegisterField \/ RegisterAnnotatedField

SpecRegistry == InitRegistry /\ [][NextRegistry]_vars

\* the registry of the finished construction is the one BuildRegistry gives
RegistryBuilt ==
    registered = Len(TheCalls)
    => field_registry = BuildRegistry(model, config, base_queryset.annotations)

\* the own fields _register_field does not skip
Registrable(field) == ~(field.auto_created /\ ~field.concrete)
OwnFields == SelectSeq(get_fields(model), Registrable)

\* every entry there is stays as it is
EntriesKept ==
    \A i \in DOMAIN field_registry :
        i \in DOMAIN field_registry' /\ field_registry'[i] = field_registry[i]

\* the name a field of a related model goes under
RelatedName(call) ==
    IF InRegistry(field_registry, call.name)
    THEN call.relation_prefix \o <<"_">> \o call.name
    ELSE call.name

\* a call for a field of a related model registers it under its bare name
\* when that is free and under <relation>_<field> when it is taken, with
\* the path <relation>__<field>; the call does nothing when the name it
\* goes under is registered
RelatedRegistered ==
    (/\ registered < Len(TheCalls)
     /\ NextCall.kind = "field"
     /\ Len(NextCall.relation_prefix) > 0
     /\ Registrable(NextCall.field))
    => IF InRegistry(field_registry, RelatedName(NextCall))
       THEN field_registry' = field_registry
       ELSE /\ Len(field_registry') = Len(field_registry) + 1
            /\ field_registry'[Len(field_registry')].name = RelatedName(NextCall)
            /\ field_registry'[Len(field_registry')].field_path
                 = NextCall.relation_prefix \o LOOKUP_SEP \o NextCall.name

\* the own fields are registered by the end of the first loop, and an entry
\* under the name of an own field has that name for its path
OwnFieldsKeepNames ==
    /\ registered >= Len(get_fields(model))
          => \A i \in DOMAIN OwnFields : InRegistry(field_registry, OwnFields[i].name)
    /\ \A i \in DOMAIN field_registry :
          (\E j \in DOMAIN OwnFields : OwnFields[j].name = field_registry[i].name)
              => field_registry[i].field_path = field_registry[i].name

UniqueNames ==
    \A i, j \in DOMAIN field_registry :
        field_registry[i].name = field_registry[j].name => i = j

\* C22: no registration call changes an entry there is: a call under a name
\* that is registered, for an own field, a field of a related model or an
\* annotation, leaves the registry as it is.  A field of a related model
\* goes with the path <relation>__<field> under its bare name when that is
\* free and under <relation>_<field> when it is taken, so the names are
\* unique and every own field keeps its bare name and a path equal to it.
C22_NoOverwrite ==
    /\ [](OwnFieldsKeepNames /\ UniqueNames)
    /\ [][EntriesKept /\ RelatedRegistered]_vars

\* Review built: Product.price under its bare name, Product.id under
\* product_id, and product_name still the own field of Review
C22_Witness ==
    /\ model = "Review"
    /\ registered = Len(TheCalls)
    /\ Entry(field_registry, <<"price">>).field_path = <<"product", "__", "price">>
    /\ Entry(field_registry, <<"product", "_", "id">>).field_path
         = <<"product", "__", "id">>
    /\ Entry(field_registry, <<"product", "_", "name">>).field_path
         = <<"product", "_", "name">>

\* the entries whose path goes through a relation
Traversing == {i \in DOMAIN field_registry : Contains(field_registry[i].field_path, LOOKUP_SEP)}

\* C25: an auto-created reverse relation without concrete storage brings
\* nothing into the registry, neither itself nor a field of the model it
\* points to: the relation of every entry whose path goes through a
\* relation is a registered own field of the model.
C25_ReverseRelationSkipped ==
    \A i \in Traversing :
        /\ InRegistry(field_registry, <<Head(field_registry[i].field_path)>>)
        /\ \E j \in DOMAIN OwnFields :
              OwnFields[j].name = <<Head(field_registry[i].field_path)>>

\* the same for the models without a reverse relation
C25_ForwardRelationsOnly ==
    model # "Category" => C25_ReverseRelationSkipped

-----------------------------------------------------------------------------
(* Filters built on a queryset that is given: any set of the products, the  *)
(* empty one included, or no queryset                                       *)

GivenQuerysets ==
    {None} \cup {QuerySet(rows, <<>>) : rows \in SUBSET AllRows("Product")}

SubsetRequests ==
    { <<>>,
      <<Param(<<"name">>, Str(Laptop))>>,
      <<Param(<<"is_active">>, Str(<<"f", "a", "l", "s", "e">>))>>,
      <<Param(SEARCH_PARAM, Str(<<"o">>))>>,
      <<Param(ADVANCED_FILTER_PARAM,
              Json(LookupLeaf(<<"price">>, PyInt(500), Str(<<"gt">>))))>> }

InitSubset ==
    \E qs \in GivenQuerysets, data \in SubsetRequests :
        ConstructedFrom("Product", NoConfig, qs, data)

SpecSubset == InitSubset /\ [][Next]_vars

\* C23: the result of apply() on a queryset that is given holds rows of
\* that queryset only, whatever the queryset, the one without rows
\* included: the base is never widened to model.objects.all().
C23_WithinGivenQueryset ==
    (Returned /\ ~IsNone(given_queryset))
    => filtered_queryset.rows \subseteq given_queryset.rows

\* the result is within the queryset given when that holds a row
C23_WithinNonEmptyQueryset ==
    (Returned /\ QuerysetTruthy(given_queryset))
    => filtered_queryset.rows \subseteq given_queryset.rows

-----------------------------------------------------------------------------
(* Requests that name one field of the registry of a model, as a flat       *)
(* parameter or as a leaf of `filter` without lookup or with a lookup no    *)
(* field permits                                                            *)

DefaultsRequestsOn(field_name) ==
    { <<Param(field_name, Str(<<"1">>))>>,
      <<Param(ADVANCED_FILTER_PARAM, Json(Leaf(field_name, Str(<<"1">>))))>>,
      <<Param(ADVANCED_FILTER_PARAM,
              Json(LookupLeaf(field_name, Str(<<"1">>), Str(<<"zz">>))))>> }

DefaultsRequests(m) ==
    UNION {DefaultsRequestsOn(field_name) :
              field_name \in RegistryNames(BuildRegistry(m, NoConfig, <<>>))}

InitDefaults ==
    \E m \in RegistryModels : \E data \in DefaultsRequests(m) : Constructed(m, data)

SpecDefaults == InitDefaults /\ [][Next]_vars

\* the entry of the field the request names
RequestedEntry ==
    Entry(field_registry,
          IF request_data[1].k = ADVANCED_FILTER_PARAM
          THEN request_data[1].v.doc.m.field.s
          ELSE request_data[1].k)

\* the keys a predicate on the field may have: its path with a permitted
\* lookup, or the is-null test
PermittedKeys(field_info) ==
    {field_info.field_path \o LOOKUP_SEP \o field_info.lookups[i] :
        i \in DOMAIN field_info.lookups}
    \cup {field_info.field_path \o LOOKUP_SEP \o <<"isnull">>}

\* C24: in every registry that is built default_lookup is one of lookups,
\* also for a field whose filter_config gives lookups and no default, so
\* every predicate of _build_field_filter that is no is-null test uses a
\* lookup the field permits.
C24_DefaultLookupPermitted ==
    /\ \A i \in DOMAIN field_registry :
          field_registry[i].default_lookup \in Range(field_registry[i].lookups)
    /\ Returned => LeafKeys(FilterArgs) \subseteq PermittedKeys(RequestedEntry)

\* the same for the fields whose filter_config gives no lookups
C24_TypeDefaultPermitted ==
    /\ \A i \in DOMAIN field_registry :
          field_registry[i].lookups = get_lookups_for_type(field_registry[i].type)
              => field_registry[i].default_lookup \in Range(field_registry[i].lookups)
    /\ (Returned
        /\ RequestedEntry.lookups = get_lookups_for_type(RequestedEntry.type))
          => LeafKeys(FilterArgs) \subseteq PermittedKeys(RequestedEntry)

=============================================================================
